---- MODULE Spec2Model ----
(***************************************************************************)
(* A model of autocoder's iterative generation-test-refinement engine:     *)
(* CodeGenerator.generate and the helpers it calls                         *)
(* (src/autocoder/core/code_generator.py).                                 *)
(*                                                                         *)
(* Text is modelled as a sequence of characters, each a one-character      *)
(* string, so that startswith, strip, split, in and basename are           *)
(* computed as Python computes them.  A fixed literal of the code that no  *)
(* operation of the code looks into (a prompt banner, the output           *)
(* directory's name) is a single multi-character element of such a         *)
(* sequence.  Python's None is the one-element sequence None.              *)
(***************************************************************************)
EXTENDS Integers, Sequences, FiniteSets, TLC

VARIABLES
    pc,                \* position of the control in generate
    max_iterations,    \* self.max_iterations
    current_iteration, \* self.current_iteration
    last_error,        \* self.last_error
    last_code_output,  \* self.last_code_output
    prompt,            \* generate's local prompt
    repo_files,        \* generate's local repo_files (the snapshot of line 78)
    code_output,       \* generate's local code_output
    extracted_files,   \* generate's local extracted_files
    file_paths,        \* generate's local file_paths
    success,           \* generate's local success
    error,             \* generate's local error
    result,            \* what generate returned (None before it returns)
    outcome,           \* why the loop of generate ended
    disk,              \* the output directory: location -> entry
    api_calls,         \* the arguments of every api_client.generate_code call
    extract_runs,      \* number of _extract_files calls
    write_runs,        \* number of _write_files calls
    written,           \* the entries the last finished _write_files call wrote
    test_runs,         \* the verdict of every _test_code call
    refine_runs,       \* number of _update_prompt_with_error calls
    lines,             \* _extract_files' local lines
    line_no,           \* how many lines the loop of _extract_files has read
    current_file,      \* _extract_files' local current_file
    current_content,   \* _extract_files' local current_content
    prompt_chars,      \* generate_code: len(prompt)
    system_chars,      \* generate_code: len(system_prompt or "")
    context,           \* generate_code's argument context
    repo_context,      \* generate_code's repo_context
    given_repo_context, \* repo_context as generate_code was called with it
    max_retries,       \* generate_code's argument max_retries
    retry_delay,       \* generate_code's retry_delay, in sixteenths of a second
    available_tokens,  \* generate_code's local available_tokens
    combined_context,  \* generate_code's local combined_context
    messages,          \* generate_code's local messages
    attempt,           \* how many chat_completion calls generate_code has made
    sent,              \* the messages of every chat_completion call
    sleeps,            \* the argument of every time.sleep call
    response,          \* what generate_code returned
    priority_files,    \* _get_repository_files: the priority files not yet handled
    walk_files,        \* the files the second walk has yet to come to
    current_total_size, \* _get_repository_files' local current_total_size
    examined,          \* the files _get_repository_files has sized and read
    snapshot_calls,    \* the calls of _get_repository_files made so far
    configs,           \* self.config of each Config constructed so far
    default_model,     \* the dictionary that DEFAULT_CONFIG["model"] refers to
    global_file,       \* ~/.autocoder.yaml
    project_file,      \* ./.autocoder.yaml
    environ,           \* os.environ
    config_ops         \* the number of Config operations made so far

vars == <<pc, max_iterations, current_iteration, last_error, last_code_output,
          prompt, repo_files, code_output, extracted_files, file_paths,
          success, error, result, outcome, disk, api_calls, extract_runs,
          write_runs, written, test_runs, refine_runs,
          lines, line_no, current_file, current_content,
          prompt_chars, system_chars, context, repo_context,
          given_repo_context, max_retries,
          retry_delay, available_tokens, combined_context, messages, attempt,
          sent, sleeps, response,
          priority_files, walk_files, current_total_size, examined,
          snapshot_calls,
          configs, default_model, global_file, project_file, environ,
          config_ops>>

\* the locals of _extract_files
scan_vars == <<lines, line_no, current_file, current_content>>

\* the arguments and locals of APIClient.generate_code
client_vars == <<prompt_chars, system_chars, context, repo_context,
                 given_repo_context, max_retries, retry_delay, available_tokens, combined_context,
                 messages, attempt, sent, sleeps, response>>

\* the locals of _get_repository_files
snap_locals == <<priority_files, walk_files, current_total_size, examined>>

\* those and the count of its calls
snap_vars == <<snap_locals, snapshot_calls>>

\* _get_repository_files is not followed step by step
SnapshotIdle ==
    /\ priority_files = <<>>
    /\ walk_files = <<>>
    /\ current_total_size = 0
    /\ examined = <<>>
    /\ snapshot_calls = 0

\* ---------------------------------------------------------------------
\* Configuration values (utils/config.py)
\*
\* A value is a record [t, v]: a scalar with its Python type and its text,
\* a dictionary with its entries as a function from keys to values, or the
\* reference to the one dictionary object that DEFAULT_CONFIG["model"]
\* holds, which dict.copy() copies as a reference.

FloatValue(text) == [t |-> "float", v |-> text]

IntValue(text) == [t |-> "int", v |-> text]

StrValue(text) == [t |-> "str", v |-> text]

BoolValue(b) == [t |-> "bool", v |-> IF b THEN <<"T", "r", "u", "e">> ELSE <<"F", "a", "l", "s", "e">>]

NoneValue == [t |-> "NoneType", v |-> <<"N", "o", "n", "e">>]

Dict(entries) == [t |-> "dict", v |-> entries]

ModelRef == [t |-> "ref", v |-> <<"m", "o", "d", "e", "l">>]

EmptyDict == Dict(<<>>)

KModel == <<"m", "o", "d", "e", "l">>

KTemperature == <<"t", "e", "m", "p", "e", "r", "a", "t", "u", "r", "e">>

KSeed == <<"s", "e", "e", "d">>

KQuantize == <<"q", "u", "a", "n", "t", "i", "z", "e">>

KMaxTestIterations == <<"m", "a", "x", "_", "t", "e", "s", "t", "_", "i", "t", "e", "r", "a", "t", "i", "o", "n", "s">>

KVerbose == <<"v", "e", "r", "b", "o", "s", "e">>

\* the dictionary DEFAULT_CONFIG["model"] as the module creates it
DefaultModel ==
    (KTemperature :> FloatValue(<<"0", ".", "6">>)) @@ (KSeed :> NoneValue)
        @@ (KQuantize :> StrValue(<<"n", "o", "n", "e">>))

\* DEFAULT_CONFIG itself: its "model" entry is a reference
DEFAULT_CONFIG ==
    (KModel :> ModelRef) @@ (KMaxTestIterations :> IntValue(<<"5", "0">>))
        @@ (KVerbose :> BoolValue(TRUE))

config_vars == <<configs, default_model, global_file, project_file, environ,
                 config_ops>>

\* no file of ~/.autocoder.yaml or ./.autocoder.yaml
NoFile == [exists |-> FALSE, doc |-> {}]

\* a file with a YAML document
File(doc) == [exists |-> TRUE, doc |-> doc]

\* the names of os.environ that are followed, and the value of one not set
EnvTemperature == "AUTOCODER_TEMPERATURE"

EnvVerbose == "AUTOCODER_VERBOSE"

EnvNames == {EnvTemperature, EnvVerbose}

Unset == <<"<unset>">>

NoEnvironment == [n \in EnvNames |-> Unset]

\* the module is imported and no Config is followed
ConfigIdle ==
    /\ configs = <<>>
    /\ default_model = DefaultModel
    /\ global_file = NoFile
    /\ project_file = NoFile
    /\ environ = NoEnvironment
    /\ config_ops = 0

\* generate_code is not running
ClientIdle ==
    /\ prompt_chars = 0
    /\ system_chars = 0
    /\ context = <<"<None>">>
    /\ repo_context = <<"<None>">>
    /\ given_repo_context = <<"<None>">>
    /\ max_retries = 0
    /\ retry_delay = 0
    /\ available_tokens = 0
    /\ combined_context = <<>>
    /\ messages = <<>>
    /\ attempt = 0
    /\ sent = <<>>
    /\ sleeps = <<>>
    /\ response = <<"<None>">>

----------------------------------------------------------------------------
(* Python values *)

None == <<"<None>">>

\* Python truthiness of an Optional[str]
Truthy(s) == s # None /\ s # <<>>

Max(a, b) == IF a >= b THEN a ELSE b

\* the backtick character, which a TLA+ string cannot hold
BT == "<backtick>"

Whitespace == {" ", "\t", "\n", "\r"}

\* str.startswith
StartsWith(s, p) == Len(s) >= Len(p) /\ SubSeq(s, 1, Len(p)) = p

\* `sub in s` on strings
Contains(s, sub) ==
    \E i \in 0..(Len(s) - Len(sub)) : SubSeq(s, i + 1, i + Len(sub)) = sub

RECURSIVE LStrip(_)
LStrip(s) == IF s # <<>> /\ Head(s) \in Whitespace THEN LStrip(Tail(s)) ELSE s

\* str.rstrip(chars)
RECURSIVE RStripChars(_, _)
RStripChars(s, cs) ==
    IF s # <<>> /\ s[Len(s)] \in cs
    THEN RStripChars(SubSeq(s, 1, Len(s) - 1), cs)
    ELSE s

\* str.strip()
Strip(s) == LStrip(RStripChars(s, Whitespace))

\* line.split(":", 1)[1] of a line that holds a ":"
AfterFirst(s, c) ==
    LET i == CHOOSE i \in 1..Len(s) : s[i] = c /\ \A j \in 1..(i - 1) : s[j] # c
    IN  SubSeq(s, i + 1, Len(s))

\* str.splitlines() for text whose only line boundary is "\n"
RECURSIVE SplitLinesFrom(_, _)
SplitLinesFrom(s, cur) ==
    IF s = <<>> THEN (IF cur = <<>> THEN <<>> ELSE <<cur>>)
    ELSE IF Head(s) = "\n" THEN <<cur>> \o SplitLinesFrom(Tail(s), <<>>)
    ELSE SplitLinesFrom(Tail(s), Append(cur, Head(s)))

SplitLines(s) == SplitLinesFrom(s, <<>>)

\* "\n".join(lines)
RECURSIVE JoinLines(_)
JoinLines(ls) ==
    IF ls = <<>> THEN <<>>
    ELSE IF Len(ls) = 1 THEN ls[1]
    ELSE ls[1] \o <<"\n">> \o JoinLines(Tail(ls))

UpperCase == <<"A", "B", "C", "D", "E", "F", "G", "H", "I", "J", "K", "L", "M",
               "N", "O", "P", "Q", "R", "S", "T", "U", "V", "W", "X", "Y", "Z">>

LowerCase == <<"a", "b", "c", "d", "e", "f", "g", "h", "i", "j", "k", "l", "m",
               "n", "o", "p", "q", "r", "s", "t", "u", "v", "w", "x", "y", "z">>

\* str.lower()
Lower(s) ==
    [i \in 1..Len(s) |->
        IF \E k \in 1..26 : UpperCase[k] = s[i]
        THEN LowerCase[CHOOSE k \in 1..26 : UpperCase[k] = s[i]]
        ELSE s[i]]

\* os.path.basename
Basename(p) ==
    IF \E i \in 1..Len(p) : p[i] = "/"
    THEN LET i == CHOOSE i \in 1..Len(p) :
                      p[i] = "/" /\ \A j \in (i + 1)..Len(p) : p[j] # "/"
         IN  SubSeq(p, i + 1, Len(p))
    ELSE p

\* the directories os.makedirs(os.path.dirname(p)) needs below the output
\* directory: every proper prefix of p that ends before a "/"
Ancestors(p) == {SubSeq(p, 1, i - 1) : i \in {j \in 2..Len(p) : p[j] = "/"}}

----------------------------------------------------------------------------
(* Python dict: a sequence of entries in insertion order, keys distinct *)

DictKeys(d) == {d[i].k : i \in 1..Len(d)}

DictHas(d, k) == \E i \in 1..Len(d) : d[i].k = k

DictGet(d, k) == d[CHOOSE i \in 1..Len(d) : d[i].k = k].v

\* d[k] = v: a present key keeps its place
DictSet(d, k, v) ==
    IF DictHas(d, k)
    THEN [i \in 1..Len(d) |-> IF d[i].k = k THEN [k |-> k, v |-> v] ELSE d[i]]
    ELSE Append(d, [k |-> k, v |-> v])

----------------------------------------------------------------------------
(* CodeGenerator._extract_files *)

MarkFile == <<BT, BT, BT, "f", "i", "l", "e", ":">>

MarkPython == <<BT, BT, BT, "p", "y", "t", "h", "o", "n", ":">>

MarkFilepath == <<BT, BT, BT, "f", "i", "l", "e", "p", "a", "t", "h", ":">>

Fence == <<BT, BT, BT>>

RawOutputKey == <<"r", "a", "w", "_", "o", "u", "t", "p", "u", "t">>

\* IsFileMarker that knows the first marker alone
IsFileMarkerFileOnly(line) == StartsWith(line, MarkFile)

IsFileMarker(line) ==
    StartsWith(line, MarkFile) \/ StartsWith(line, MarkPython)
        \/ StartsWith(line, MarkFilepath)

\* the path of a marker line: parts[1].strip(), then .rstrip of backticks, .strip()
MarkerPath(line) == Strip(RStripChars(Strip(AfterFirst(line, ":")), {BT}))

\* SaveCurrent that updates extracted_files alone
SaveCurrentExtractedOnly(st) ==
    [st EXCEPT
        !.extracted = DictSet(@, st.current_file, JoinLines(st.current_content)),
        !.current_content = <<>>]

\* SaveCurrent that leaves current_content as it is
SaveCurrentKeepsContent(st) ==
    [st EXCEPT
        !.extracted = DictSet(@, st.current_file, JoinLines(st.current_content)),
        !.last_code_output =
            DictSet(@, st.current_file, JoinLines(st.current_content))]

\* extracted_files[current_file] = ...; self.last_code_output[current_file] = ...
SaveCurrent(st) ==
    [st EXCEPT
        !.extracted = DictSet(@, st.current_file, JoinLines(st.current_content)),
        !.last_code_output =
            DictSet(@, st.current_file, JoinLines(st.current_content)),
        !.current_content = <<>>]

\* one pass of the loop over lines
ExtractLine(st, line) ==
    IF IsFileMarker(line)
    THEN LET saved == IF Truthy(st.current_file) /\ st.current_content # <<>>
                      THEN SaveCurrent(st)
                      ELSE st
         IN  [saved EXCEPT !.current_file = MarkerPath(line)]
    ELSE IF Strip(line) = Fence /\ Truthy(st.current_file)
    THEN IF st.current_content # <<>>
         THEN [SaveCurrent(st) EXCEPT !.current_file = None]
         ELSE st
    ELSE IF st.current_file # None
    THEN [st EXCEPT !.current_content = Append(@, line)]
    ELSE st

RECURSIVE ExtractLines(_, _)
ExtractLines(st, ls) ==
    IF ls = <<>> THEN st
    ELSE ExtractLines(ExtractLine(st, Head(ls)), Tail(ls))

\* FlushAtEnd that drops a file left open at the end of the response
NoFlushAtEnd(st) == st

\* lines 218 to 221: the file still open at the end of the response
FlushAtEnd(st) ==
    IF Truthy(st.current_file) /\ st.current_content # <<>>
    THEN SaveCurrent(st)
    ELSE st

\* the whole of _extract_files: [extracted, last_code_output, ...]
ExtractFiles(output) ==
    LET st0 == [extracted |-> <<>>,
                last_code_output |-> <<[k |-> RawOutputKey, v |-> output]>>,
                current_file |-> None,
                current_content |-> <<>>]
    IN  FlushAtEnd(ExtractLines(st0, SplitLines(output)))

----------------------------------------------------------------------------
(* The output directory.  A location is a path relative to output_dir; its  *)
(* entry is a file's content, DirEntry for a directory, NoEntry for nothing *)

PathA == <<"a", ".", "p", "y">>

PathTestA == <<"t", "e", "s", "t", "_", "a", ".", "p", "y">>

PathD == <<"d">>

PathDTestB == <<"d", "/", "t", "e", "s", "t", "_", "b", ".", "p", "y">>

Locs == {PathA, PathTestA, PathD, PathDTestB}

\* the locations in the order os.walk(root_dir) yields them: the files of
\* the root directory, then those of its subdirectories
WalkOrder == <<PathA, PathD, PathTestA, PathDTestB>>

NoEntry == <<"<absent>">>

DirEntry == <<"<dir>">>

IsFile(entry) == entry # NoEntry /\ entry # DirEntry

EmptyDisk == [l \in Locs |-> NoEntry]

\* the output directories generate is started on: a fresh one, and one that
\* holds a file of an earlier run
InitialDisks == {EmptyDisk, [EmptyDisk EXCEPT ![PathA] = <<"o">>]}

\* A larger output directory, for the repository snapshot: files that the
\* exclusions are about, at the root and below it, and two crowds of
\* SnapshotFiles files, one at the root and one in the directory p

\* the number of files of a crowd
SnapshotFiles == 22

ReadmeMd == <<"R", "E", "A", "D", "M", "E", ".", "m", "d">>

MPyc == <<"m", ".", "p", "y", "c">>

APy == <<"a", ".", "p", "y">>

GitConfig == <<".", "g", "i", "t", "/", "c">>

DNoteMd == <<"d", "/", "n", ".", "m", "d">>

DMPyc == <<"d", "/", "m", ".", "p", "y", "c">>

DGitConfig == <<"d", "/", ".", "g", "i", "t", "/", "c">>

DSampleS == <<"d", "/", "s", "a", "m", "p", "l", "e", "/", "s", ".", "p", "y">>

SampleS == <<"s", "a", "m", "p", "l", "e", "/", "s", ".", "p", "y">>

PytestCacheTag == <<".", "p", "y", "t", "e", "s", "t", "_", "c", "a", "c", "h", "e", "/", "C", "A", "C", "H", "E", "D", "I", "R", ".", "T", "A", "G">>

\* "<letter>.t" at the root
CrowdRoot == [i \in 1..SnapshotFiles |-> <<LowerCase[i], ".", "t">>]

\* "p/<letter>.py"
CrowdP == [i \in 1..SnapshotFiles |-> <<"p", "/", LowerCase[i], ".", "p", "y">>]

\* os.walk of that directory: the files of the root, then the directories
\* .git, d, p and sample, each with what is below it
SnapshotWalkOrder ==
    <<ReadmeMd, MPyc, APy>> \o CrowdRoot \o <<GitConfig, PytestCacheTag>>
        \o <<DNoteMd, DMPyc, DGitConfig, DSampleS>> \o CrowdP \o <<SampleS>>

SnapshotLocs == {SnapshotWalkOrder[i] : i \in 1..Len(SnapshotWalkOrder)}

\* the order in which os.walk comes to the locations of a directory
WalkOrderOf(d) == IF DOMAIN d = Locs THEN WalkOrder ELSE SnapshotWalkOrder

\* the content of a file that is not valid UTF-8
Undecodable == <<"<undecodable>">>

\* the string output_dir
OutputDir == "<output_dir>"

\* os.path.join(output_dir, file_path) for a relative file_path
FullPath(file_path) == <<OutputDir, "/">> \o file_path

----------------------------------------------------------------------------
(* CodeGenerator._write_files *)

\* WriteFile with file_paths.append after the try statement: a file whose
\* open failed is reported as written
WriteFileCountsFailed(ws, e) ==
    IF ws.raised THEN ws
    ELSE IF \E a \in Ancestors(e.k) : IsFile(ws.disk[a])
    THEN [ws EXCEPT !.raised = TRUE]
    ELSE LET made == [l \in Locs |->
                         IF l \in Ancestors(e.k) THEN DirEntry ELSE ws.disk[l]]
         IN  [ws EXCEPT !.disk = IF made[e.k] = DirEntry
                                 THEN made
                                 ELSE [made EXCEPT ![e.k] = e.v],
                        !.file_paths = Append(@, FullPath(e.k))]

\* one pass of the loop over files.items(): os.makedirs raises when a parent
\* of the path is a file (raised: the exception leaves _write_files); open
\* fails, and the file is skipped, when the path is a directory
WriteFile(ws, e) ==
    IF ws.raised THEN ws
    ELSE IF \E a \in Ancestors(e.k) : IsFile(ws.disk[a])
    THEN [ws EXCEPT !.raised = TRUE]
    ELSE LET made == [l \in Locs |->
                         IF l \in Ancestors(e.k) THEN DirEntry ELSE ws.disk[l]]
         IN  IF made[e.k] = DirEntry
             THEN [ws EXCEPT !.disk = made]
             ELSE [ws EXCEPT !.disk = [made EXCEPT ![e.k] = e.v],
                             !.file_paths = Append(@, FullPath(e.k))]

RECURSIVE WriteEach(_, _)
WriteEach(ws, files) ==
    IF files = <<>> THEN ws
    ELSE WriteEach(WriteFile(ws, Head(files)), Tail(files))

\* the whole of _write_files: [disk, file_paths, raised]
WriteFiles(files, d) ==
    WriteEach([disk |-> d, file_paths |-> <<>>, raised |-> FALSE], files)

----------------------------------------------------------------------------
(* CodeGenerator._test_code *)

TestWord == <<"t", "e", "s", "t">>

NoTestFilesMsg ==
    <<"N", "o", " ", "t", "e", "s", "t", " ", "f", "i", "l", "e", "s", " ",
      "w", "e", "r", "e", " ", "g", "e", "n", "e", "r", "a", "t", "e", "d">>

DependencyFailedMsg ==
    <<"D", "e", "p", "e", "n", "d", "e", "n", "c", "y", " ", "i", "n", "s",
      "t", "a", "l", "l", "a", "t", "i", "o", "n", " ", "f", "a", "i", "l",
      "e", "d", ":", " ">>

\* TestFiles without the filter: every written file counts as a test file
TestFilesUnfiltered(paths) == paths

TestFiles(paths) ==
    SelectSeq(paths, LAMBDA p : Contains(Lower(Basename(p)), TestWord))

\* what the two subprocesses of a test run can give (logger.command): the
\* setup script's success and stderr, pytest's exit code, stdout and stderr
TestEnvs ==
    { [install_ok |-> TRUE, install_stderr |-> <<>>, returncode |-> 0,
       stdout |-> <<".">>, stderr |-> <<>>],
      [install_ok |-> TRUE, install_stderr |-> <<>>, returncode |-> 1,
       stdout |-> <<"F">>, stderr |-> <<"a", ".", "p", "y", ":", "E">>],
      [install_ok |-> TRUE, install_stderr |-> <<>>, returncode |-> 1,
       stdout |-> <<"F">>, stderr |-> <<>>],
      [install_ok |-> TRUE, install_stderr |-> <<>>, returncode |-> 2,
       stdout |-> <<>>, stderr |-> <<>>],
      [install_ok |-> FALSE, install_stderr |-> <<"p", "i", "p">>,
       returncode |-> 0, stdout |-> <<>>, stderr |-> <<>>] }

\* TestCode whose diagnostic is stdout or stderr
TestCodeStdoutFirst(paths, env) ==
    IF TestFiles(paths) = <<>>
    THEN [installed |-> FALSE, ran |-> FALSE, success |-> FALSE,
          error |-> NoTestFilesMsg]
    ELSE IF ~env.install_ok
    THEN [installed |-> TRUE, ran |-> FALSE, success |-> FALSE,
          error |-> DependencyFailedMsg \o env.install_stderr]
    ELSE IF env.returncode = 0
    THEN [installed |-> TRUE, ran |-> TRUE, success |-> TRUE, error |-> None]
    ELSE [installed |-> TRUE, ran |-> TRUE, success |-> FALSE,
          error |-> IF env.stdout # <<>> THEN env.stdout ELSE env.stderr]

\* the whole of _test_code: [ran, installed, success, error]; ran and
\* installed tell whether pytest and the setup script were started
TestCode(paths, env) ==
    IF TestFiles(paths) = <<>>
    THEN [installed |-> FALSE, ran |-> FALSE, success |-> FALSE,
          error |-> NoTestFilesMsg]
    ELSE IF ~env.install_ok
    THEN [installed |-> TRUE, ran |-> FALSE, success |-> FALSE,
          error |-> DependencyFailedMsg \o env.install_stderr]
    ELSE IF env.returncode = 0
    THEN [installed |-> TRUE, ran |-> TRUE, success |-> TRUE, error |-> None]
    ELSE [installed |-> TRUE, ran |-> TRUE, success |-> FALSE,
          error |-> IF env.stderr # <<>> THEN env.stderr ELSE env.stdout]

----------------------------------------------------------------------------
(* CodeGenerator._get_repository_files *)

\* fnmatch.fnmatch for patterns whose only special character is "*"
RECURSIVE FnMatch(_, _)
FnMatch(s, p) ==
    IF p = <<>> THEN s = <<>>
    ELSE IF Head(p) = "*"
    THEN FnMatch(s, Tail(p)) \/ (s # <<>> /\ FnMatch(Tail(s), p))
    ELSE s # <<>> /\ Head(s) = Head(p) /\ FnMatch(Tail(s), Tail(p))

excluded_patterns ==
    << <<"m", "e", "r", "m", "a", "i", "d", ".", "m", "d">>,
       <<"*", "*", "/", "s", "p", "e", "c", "s", "/", "*", "*">>,
       <<"*", "*", "/", ".", "g", "i", "t", "/", "*", "*">>,
       <<"*", "*", "/", "*", ".", "g", "i", "t", "*">>,
       <<"*", "*", "/", "_", "_", "p", "y", "c", "a", "c", "h", "e", "_", "_",
         "/", "*", "*">>,
       <<"*", "*", "/", "*", ".", "p", "y", "c">>,
       <<"*", "*", "/", "*", ".", "p", "y", "o">>,
       <<"*", "*", "/", "*", ".", "s", "o">>,
       <<"*", "*", "/", "*", ".", "o">>,
       <<"*", "*", "/", "*", ".", "a">>,
       <<"*", "*", "/", "*", ".", "l", "o", "g">>,
       <<"*", "*", "/", ".", "p", "y", "t", "e", "s", "t", "_", "c", "a", "c",
         "h", "e", "/", "*", "*">>,
       <<"*", "*", "/", "s", "a", "m", "p", "l", "e", "/", "*", "*">>,
       <<"*", "*", "/", "*", ".", "m", "d">> >>

priority_patterns ==
    << <<"*", "*", "/", "*", ".", "p", "y">>,
       <<"*", "*", "/", "_", "_", "i", "n", "i", "t", "_", "_", ".", "p", "y">>,
       <<"*", "*", "/", "c", "l", "i", ".", "p", "y">>,
       <<"*", "*", "/", "c", "o", "r", "e", "/", "*", ".", "p", "y">> >>

MAX_FILES == 20

MAX_TOTAL_SIZE == 20000

\* 1024 * 50, the size above which a file is skipped
MaxFileSize == 51200

\* is_excluded, on the path relative to root_dir
is_excluded(rel_path) ==
    \E i \in 1..Len(excluded_patterns) : FnMatch(rel_path, excluded_patterns[i])

\* the files os.walk reaches, in its order: those on the disk none of whose
\* parent directories was filtered out of dirs
WalkFiles(d) ==
    SelectSeq(WalkOrderOf(d),
              LAMBDA l : IsFile(d[l]) /\ \A a \in Ancestors(l) : ~is_excluded(a))

\* the loop over priority_patterns that fills priority_files
RECURSIVE PriorityFiles(_, _, _)
PriorityFiles(d, i, found) ==
    IF i > Len(priority_patterns) THEN found
    ELSE PriorityFiles(d, i + 1,
            found \o SelectSeq(WalkFiles(d),
                        LAMBDA l : /\ FnMatch(l, priority_patterns[i])
                                   /\ ~is_excluded(l)
                                   /\ \A j \in 1..Len(found) : found[j] # l))

\* CapReached that never stops a pass
CapNeverReached(rs) == FALSE

CapReached(rs) == Len(rs.repo_files) >= MAX_FILES \/ rs.size >= MAX_TOTAL_SIZE

\* Collect that stops at the total size: a file that would pass it is cut
\* to what is left
CollectCutting(rs, d, l) ==
    IF Len(d[l]) > MaxFileSize THEN rs
    ELSE IF d[l] = Undecodable THEN rs
    ELSE LET room == MAX_TOTAL_SIZE - rs.size
             text == SubSeq(d[l], 1, IF Len(d[l]) <= room THEN Len(d[l]) ELSE room)
         IN  [repo_files |-> DictSet(rs.repo_files, l, text),
              size |-> rs.size + Len(text)]

\* one candidate file of either pass: skipped when it is too large, cannot
\* be decoded or would pass the total size, else stored whole
Collect(rs, d, l) ==
    IF Len(d[l]) > MaxFileSize THEN rs
    ELSE IF d[l] = Undecodable THEN rs
    ELSE IF rs.size + Len(d[l]) > MAX_TOTAL_SIZE THEN rs
    ELSE [repo_files |-> DictSet(rs.repo_files, l, d[l]),
          size |-> rs.size + Len(d[l])]

\* the loop over priority_files, which breaks once a cap is reached
RECURSIVE PriorityPass(_, _, _)
PriorityPass(rs, d, files) ==
    IF files = <<>> \/ CapReached(rs) THEN rs
    ELSE PriorityPass(Collect(rs, d, Head(files)), d, Tail(files))

\* the second walk, which breaks once a cap is reached and skips the
\* excluded and the already collected files
RECURSIVE FillPass(_, _, _)
FillPass(rs, d, files) ==
    IF files = <<>> \/ CapReached(rs) THEN rs
    ELSE IF is_excluded(Head(files)) \/ DictHas(rs.repo_files, Head(files))
    THEN FillPass(rs, d, Tail(files))
    ELSE FillPass(Collect(rs, d, Head(files)), d, Tail(files))

\* the whole of _get_repository_files
GetRepositoryFiles(d) ==
    LET rs0 == [repo_files |-> <<>>, size |-> 0]
        rs1 == PriorityPass(rs0, d, PriorityFiles(d, 1, <<>>))
    IN  FillPass(rs1, d, WalkFiles(d)).repo_files

----------------------------------------------------------------------------
(* CodeGenerator._update_prompt_with_error *)

\* os.path.basename(os.path.abspath("."))
RepoName == "<repo_name>"

MAX_REPO_FILES == 5

\* the threshold of len(error) above which a snapshot is always taken
ErrorLengthThreshold == 1000

\* sorted(items, key=len of content): a stable insertion sort
RECURSIVE InsertBySize(_, _)
InsertBySize(sorted, e) ==
    IF sorted = <<>> THEN <<e>>
    ELSE IF Len(Head(sorted).v) <= Len(e.v)
    THEN <<Head(sorted)>> \o InsertBySize(Tail(sorted), e)
    ELSE <<e>> \o sorted

RECURSIVE SortedBySize(_)
SortedBySize(items) ==
    IF items = <<>> THEN <<>>
    ELSE InsertBySize(SortedBySize(SubSeq(items, 1, Len(items) - 1)),
                      items[Len(items)])

\* LimitRepoFiles that cuts without sorting
LimitRepoFilesUnsorted(files) ==
    IF Len(files) > MAX_REPO_FILES
    THEN SubSeq(files, 1, MAX_REPO_FILES)
    ELSE files

\* the snapshot cut to MAX_REPO_FILES files, the smallest first
LimitRepoFiles(files) ==
    IF Len(files) > MAX_REPO_FILES
    THEN SubSeq(SortedBySize(files), 1, MAX_REPO_FILES)
    ELSE files

\* "<|file_sep|>{file_path}\n{content}\n" for each file
RECURSIVE FileSegments(_)
FileSegments(files) ==
    IF files = <<>> THEN <<>>
    ELSE <<"<|file_sep|>">> \o Head(files).k \o <<"\n">> \o Head(files).v
             \o <<"\n">> \o FileSegments(Tail(files))

\* "<|repo_name|>{repo_name}\n" and the file segments
RepoContext(files) == <<"<|repo_name|>", RepoName, "\n">> \o FileSegments(files)

\* ProblematicFiles that looks for the whole path in the error
ProblematicFilesByPath(err, files) ==
    SelectSeq(files, LAMBDA e : Contains(err, e.k))

\* the files whose basename occurs in the error
ProblematicFiles(err, files) ==
    SelectSeq(files, LAMBDA e : Contains(err, Basename(e.k)))

RECURSIVE ProblematicSections(_)
ProblematicSections(files) ==
    IF files = <<>> THEN <<>>
    ELSE <<"\nThe problematic file was ", BT>> \o Head(files).k
             \o <<BT, ":\n", BT, BT, BT, "python\n">> \o Head(files).v
             \o <<"\n", BT, BT, BT, "\n">>
             \o ProblematicSections(Tail(files))

\* TakesSnapshot that always says yes
TakesSnapshotAlways(err, problematic) == TRUE

\* whether a snapshot of the repository is taken
TakesSnapshot(err, problematic) ==
    problematic = <<>> \/ Len(err) > ErrorLengthThreshold

\* the calls of _get_repository_files that _update_prompt_with_error makes
SnapshotsTaken(err, files) ==
    IF Truthy(err) /\ TakesSnapshot(err, ProblematicFiles(err, files))
    THEN 1 ELSE 0

\* UpdatePromptWithError that returns what it would append, without the
\* prompt it was given
UpdatePromptReplacing(p, err, files, d) ==
    IF ~Truthy(err) THEN p
    ELSE <<"\n\n# Previous Error\nThe previous code generation attempt failed with the following error:\n",
           BT, BT, BT, "\n">>
             \o err
             \o <<"\n", BT, BT, BT,
                  "\nPlease fix the issues and regenerate the code.">>

\* UpdatePromptWithError whose banner leaves the error out
UpdatePromptDroppingError(p, err, files, d) ==
    IF ~Truthy(err) THEN p
    ELSE p \o <<"\n\n# Previous Error\nThe previous code generation attempt failed.",
                "\nPlease fix the issues and regenerate the code.">>

\* UpdatePromptWithError without the early return: the banner is added
\* whatever the error is
UpdatePromptAlways(p, err, files, d) ==
    p \o <<"\n\n# Previous Error\nThe previous code generation attempt failed with the following error:\n",
           BT, BT, BT, "\n">>
      \o err
      \o <<"\n", BT, BT, BT,
           "\nPlease fix the issues and regenerate the code.">>

\* the whole of _update_prompt_with_error
UpdatePromptWithError(p, err, files, d) ==
    IF ~Truthy(err) THEN p
    ELSE LET banner ==
                 <<"\n\n# Previous Error\nThe previous code generation attempt failed with the following error:\n",
                   BT, BT, BT, "\n">>
                     \o err
                     \o <<"\n", BT, BT, BT,
                          "\nPlease fix the issues and regenerate the code.">>
             problematic == ProblematicFiles(err, files)
             sections == IF problematic # <<>>
                         THEN <<"\n\n# Problematic Files\n">>
                                  \o ProblematicSections(problematic)
                         ELSE <<>>
             repo == IF TakesSnapshot(err, problematic)
                     THEN LimitRepoFiles(GetRepositoryFiles(d))
                     ELSE <<>>
             section == IF repo # <<>>
                        THEN <<"\n\n# Repository Context\n">> \o RepoContext(repo)
                        ELSE <<>>
         IN  p \o banner \o sections \o section

----------------------------------------------------------------------------
(* The model's answers: api_client.generate_code returns a text, returns   *)
(* the empty string, or raises                                             *)

RespFull ==
    JoinLines(<< <<"H", "i">>,
                 MarkFile \o PathA, <<"x">>, Fence,
                 MarkPython \o PathTestA, <<"y">>, Fence >>)

\* one file in a subdirectory, its marker followed by backticks, its block
\* never closed
RespSub == JoinLines(<< MarkFilepath \o <<" ">> \o PathDTestB \o Fence, <<"z">> >>)

RespTwo ==
    JoinLines(<< MarkFile \o PathA, <<"y">>, Fence,
                 MarkFile \o PathD, <<"x">>, Fence >>)

RespOne == JoinLines(<< MarkFile \o PathD, <<"x">>, Fence >>)

RespProse == <<"n", "o">>

Responses == {RespFull, RespSub, RespTwo, RespOne, RespProse}

ApiResults ==
    {[raised |-> FALSE, text |-> t] : t \in Responses \cup {<<>>}}
        \cup {[raised |-> TRUE, text |-> <<>>]}

----------------------------------------------------------------------------
(* CodeGenerator._generate_code *)

SystemPrompt == "<system_prompt>"

\* Temperature without the floor: 0.7 - iteration * 0.05
TemperatureNoFloor(iteration) == 70 - iteration * 5

\* max(0.4, 0.7 - iteration * 0.05), in hundredths
Temperature(iteration) == Max(40, 70 - iteration * 5)

\* GenerateCodeCall that gives the repository context to the first call only
GenerateCodeCallFirstOnly(p, iteration, le, rf) ==
    [prompt |-> p,
     context |->
         IF iteration > 0 /\ Truthy(le)
         THEN <<"The previous code generation attempt failed with the following error:\n",
                BT, BT, BT, "\n">>
                  \o le
                  \o <<"\n", BT, BT, BT,
                       "\nPlease fix the issues and regenerate the code.">>
         ELSE None,
     repo_context |-> IF rf # <<>> /\ iteration = 0 THEN RepoContext(rf) ELSE <<>>,
     system_prompt |-> SystemPrompt,
     temperature |-> Temperature(iteration)]

\* the arguments of the call of api_client.generate_code
GenerateCodeCall(p, iteration, le, rf) ==
    [prompt |-> p,
     context |->
         IF iteration > 0 /\ Truthy(le)
         THEN <<"The previous code generation attempt failed with the following error:\n",
                BT, BT, BT, "\n">>
                  \o le
                  \o <<"\n", BT, BT, BT,
                       "\nPlease fix the issues and regenerate the code.">>
         ELSE None,
     repo_context |-> IF rf # <<>> THEN RepoContext(rf) ELSE <<>>,
     system_prompt |-> SystemPrompt,
     temperature |-> Temperature(iteration)]

\* what _generate_code returns for an answer of the API client
GenerateCodeResult(r) == IF r.raised \/ r.text = <<>> THEN <<>> ELSE r.text

----------------------------------------------------------------------------
(* CodeGenerator.generate *)

\* the largest max_iterations generate is called with
MaxIterations == 3

\* config's max_test_iterations, which __init__ reads
DefaultMaxIterations == 50

\* spec_parser.generate_prompt(spec_data)
InitialPrompt == <<"<prompt>">>

\* LoopContinues with an off-by-one bound: range(self.max_iterations + 1)
LoopContinuesInclusive == current_iteration <= max_iterations

\* for iteration in range(self.max_iterations): another pass is made
LoopContinues == current_iteration < max_iterations

\* EmptyOutput without the check: the loop goes on with no response
NeverEmptyOutput(output) == FALSE

\* if not code_output: break
EmptyOutput(output) == output = <<>>

\* NoExtractedFiles without the check: the loop goes on with no file
NeverNoFiles(files) == FALSE

\* if not extracted_files: break
NoExtractedFiles(files) == files = <<>>

\* if not file_paths: break
NoWrittenFiles(paths) == paths = <<>>

\* TestPassed that also leaves the loop when no test file was produced
BreaksWithoutTests(t) == t.success \/ ~t.installed

\* TestPassed without the break on success
TestNeverBreaks(t) == FALSE

\* if success: break
TestPassed(t) == t.success

\* StoredError that stores nothing
StoresNothing(t) == last_error

\* StoredError that keeps the first error of the session
KeepsFirstError(t) == IF last_error = None THEN t.error ELSE last_error

\* self.last_error = error
StoredError(t) == t.error

\* ReturnValue as: return self.last_error is None
ReturnNoErrorStored == last_error = None

\* return success
ReturnValue == success

Init ==
    /\ pc = "Idle"
    /\ max_iterations = DefaultMaxIterations
    /\ current_iteration = 0
    /\ last_code_output = <<>>
    /\ last_error = None
    /\ disk \in InitialDisks
    /\ prompt = None
    /\ repo_files = <<>>
    /\ code_output = None
    /\ extracted_files = <<>>
    /\ file_paths = <<>>
    /\ success = FALSE
    /\ error = None
    /\ result = FALSE
    /\ outcome = "Running"
    /\ api_calls = <<>>
    /\ extract_runs = 0
    /\ write_runs = 0
    /\ written = <<>>
    /\ test_runs = <<>>
    /\ refine_runs = 0
    /\ lines = <<>>
    /\ line_no = 0
    /\ current_file = None
    /\ current_content = <<>>
    /\ ClientIdle
    /\ SnapshotIdle
    /\ ConfigIdle

\* generate is called: lines 42 to 78
Generate(mi) ==
    /\ pc = "Idle"
    /\ max_iterations' = mi
    /\ last_error' = None
    /\ current_iteration' = 0
    /\ prompt' = InitialPrompt
    /\ success' = FALSE
    /\ repo_files' = GetRepositoryFiles(disk)
    /\ pc' = "LoopHead"
    /\ UNCHANGED <<last_code_output, code_output, extracted_files, file_paths,
                   error, result, outcome, disk, api_calls, extract_runs,
                   write_runs, written, test_runs, refine_runs>>
    /\ snapshot_calls' = snapshot_calls + 1
    /\ UNCHANGED <<scan_vars, client_vars, snap_locals, config_vars>>

\* the for statement starts a pass: lines 81 to 84
NextIteration ==
    /\ pc = "LoopHead"
    /\ LoopContinues
    /\ current_iteration' = current_iteration + 1
    /\ pc' = "Generating"
    /\ UNCHANGED <<max_iterations, last_error, last_code_output, prompt,
                   repo_files, code_output, extracted_files, file_paths,
                   success, error, result, outcome, disk, api_calls,
                   extract_runs, write_runs, written, test_runs, refine_runs>>
    /\ UNCHANGED <<scan_vars, client_vars, snap_vars, config_vars>>

\* the for statement is exhausted
LoopEnds ==
    /\ pc = "LoopHead"
    /\ ~LoopContinues
    /\ outcome' = "Exhausted"
    /\ pc' = "LoopExit"
    /\ UNCHANGED <<max_iterations, current_iteration, last_error,
                   last_code_output, prompt, repo_files, code_output,
                   extracted_files, file_paths, success, error, result, disk,
                   api_calls, extract_runs, write_runs, written, test_runs,
                   refine_runs>>
    /\ UNCHANGED <<scan_vars, client_vars, snap_vars, config_vars>>

\* lines 86 to 90
GenerateCode(r) ==
    /\ pc = "Generating"
    /\ api_calls' = Append(api_calls,
            GenerateCodeCall(prompt, current_iteration - 1, last_error, repo_files))
    /\ code_output' = GenerateCodeResult(r)
    /\ IF EmptyOutput(code_output')
       THEN outcome' = "EmptyResponse" /\ pc' = "LoopExit"
       ELSE outcome' = outcome /\ pc' = "Extracting"
    /\ UNCHANGED <<max_iterations, current_iteration, last_error,
                   last_code_output, prompt, repo_files, extracted_files,
                   file_paths, success, error, result, disk, extract_runs,
                   write_runs, written, test_runs, refine_runs>>
    /\ UNCHANGED <<scan_vars, client_vars, snap_vars, config_vars>>

\* lines 92 to 96
Extract ==
    /\ pc = "Extracting"
    /\ LET x == ExtractFiles(code_output)
       IN  /\ extracted_files' = x.extracted
           /\ last_code_output' = x.last_code_output
    /\ extract_runs' = extract_runs + 1
    /\ IF NoExtractedFiles(extracted_files')
       THEN outcome' = "NoFiles" /\ pc' = "LoopExit"
       ELSE outcome' = outcome /\ pc' = "Writing"
    /\ UNCHANGED <<max_iterations, current_iteration, last_error, prompt,
                   repo_files, code_output, file_paths, success, error, result,
                   disk, api_calls, write_runs, written, test_runs, refine_runs>>
    /\ UNCHANGED <<scan_vars, client_vars, snap_vars, config_vars>>

\* lines 98 to 102; an exception of os.makedirs leaves generate
Write ==
    /\ pc = "Writing"
    /\ write_runs' = write_runs + 1
    /\ LET w == WriteFiles(extracted_files, disk)
       IN  /\ disk' = w.disk
           /\ written' =
                  SelectSeq(extracted_files,
                      LAMBDA e : \E i \in 1..Len(w.file_paths) :
                                     w.file_paths[i] = FullPath(e.k))
           /\ IF w.raised
              THEN /\ pc' = "Raised"
                   /\ outcome' = "Raised"
                   /\ UNCHANGED file_paths
              ELSE /\ file_paths' = w.file_paths
                   /\ IF NoWrittenFiles(w.file_paths)
                      THEN outcome' = "NoWrites" /\ pc' = "LoopExit"
                      ELSE outcome' = outcome /\ pc' = "Testing"
    /\ UNCHANGED <<max_iterations, current_iteration, last_error,
                   last_code_output, prompt, repo_files, code_output,
                   extracted_files, success, error, result, api_calls,
                   extract_runs, test_runs, refine_runs>>
    /\ UNCHANGED <<scan_vars, client_vars, snap_vars, config_vars>>

\* lines 104 to 111
Test(env) ==
    /\ pc = "Testing"
    /\ LET t == TestCode(file_paths, env)
       IN  /\ success' = t.success
           /\ error' = t.error
           /\ test_runs' = Append(test_runs, t)
           /\ IF TestPassed(t)
              THEN /\ outcome' = "Succeeded"
                   /\ pc' = "LoopExit"
                   /\ last_error' = last_error
              ELSE /\ outcome' = outcome
                   /\ pc' = "Refining"
                   /\ last_error' = StoredError(t)
    /\ UNCHANGED <<max_iterations, current_iteration, last_code_output, prompt,
                   repo_files, code_output, extracted_files, file_paths, result,
                   disk, api_calls, extract_runs, write_runs, written,
                   refine_runs>>
    /\ UNCHANGED <<scan_vars, client_vars, snap_vars, config_vars>>

\* lines 113 to 119
Refine ==
    /\ pc = "Refining"
    /\ prompt' = UpdatePromptWithError(prompt, error, extracted_files, disk)
    /\ refine_runs' = refine_runs + 1
    /\ pc' = "LoopHead"
    /\ UNCHANGED <<max_iterations, current_iteration, last_error,
                   last_code_output, repo_files, code_output, extracted_files,
                   file_paths, success, error, result, outcome, disk, api_calls,
                   extract_runs, write_runs, written, test_runs>>
    /\ snapshot_calls' = snapshot_calls + SnapshotsTaken(error, extracted_files)
    /\ UNCHANGED <<scan_vars, client_vars, snap_locals, config_vars>>

\* line 121
Return ==
    /\ pc = "LoopExit"
    /\ result' = ReturnValue
    /\ pc' = "Returned"
    /\ UNCHANGED <<max_iterations, current_iteration, last_error,
                   last_code_output, prompt, repo_files, code_output,
                   extracted_files, file_paths, success, error, outcome, disk,
                   api_calls, extract_runs, write_runs, written, test_runs,
                   refine_runs>>
    /\ UNCHANGED <<scan_vars, client_vars, snap_vars, config_vars>>

Next ==
    \/ \E mi \in -1..MaxIterations : Generate(mi)
    \/ NextIteration
    \/ LoopEnds
    \/ \E r \in ApiResults : GenerateCode(r)
    \/ Extract
    \/ Write
    \/ \E env \in TestEnvs : Test(env)
    \/ Refine
    \/ Return

Spec == Init /\ [][Next]_vars

----------------------------------------------------------------------------
(* Properties of the iteration controller *)

InSession == pc # "Idle"

Ended == pc \in {"LoopExit", "Returned"}

Last(seq) == seq[Len(seq)]

\* the indices of the failed test runs
FailedRuns == {i \in 1..Len(test_runs) : ~test_runs[i].success}

\* C1 as stated: in every state of a generate session current_iteration is
\* at most max_iterations, and no more than max_iterations model calls are
\* made.
C1_AsStated ==
    InSession => /\ current_iteration <= max_iterations
                 /\ Len(api_calls) <= max_iterations

\* C1, amended: in a session current_iteration and the number of model
\* calls never exceed max(max_iterations, 0); current_iteration is 0 when
\* the session starts, every step leaves it alone or adds exactly 1, and
\* the k-th model call is made while current_iteration is k.
C1_IterationBound ==
    /\ [](InSession =>
            /\ current_iteration \in 0..Max(max_iterations, 0)
            /\ Len(api_calls) <= current_iteration)
    /\ [][/\ pc = "Idle" => current_iteration' = 0
          /\ current_iteration' \in {current_iteration, current_iteration + 1}
          /\ Len(api_calls') # Len(api_calls) =>
                 /\ Len(api_calls') = Len(api_calls) + 1
                 /\ Len(api_calls') = current_iteration]_vars

\* a session that used its whole budget of at least two iterations
C1_Witness ==
    /\ pc = "Returned"
    /\ max_iterations >= 2
    /\ current_iteration = max_iterations
    /\ Len(api_calls) = max_iterations

IsPrefix(a, b) == Len(a) <= Len(b) /\ SubSeq(b, 1, Len(a)) = a

\* the last pass ended at one of the three checks of lines 88, 94 and 100
Aborted ==
    \/ code_output = <<>>
    \/ extract_runs > 0 /\ extracted_files = <<>>
    \/ write_runs > 0 /\ file_paths = <<>> /\ pc # "Raised"

\* how many calls of each collaborator were made
Calls == <<Len(api_calls), extract_runs, write_runs, Len(test_runs), refine_runs>>

\* C2 as stated: whenever generate returns, a test run has passed or
\* current_iteration equals max_iterations.
C2_AsStated == pc = "Returned" => success \/ current_iteration = max_iterations

\* C2, amended: whenever the loop of generate has ended, the last test run
\* passed, or current_iteration equals max_iterations, or the last pass was
\* aborted (empty model response, no extracted file, no written file), or
\* max_iterations is negative and no pass was made; and a new pass starts
\* only while no test run has passed and current_iteration is below
\* max_iterations.
C2_Termination ==
    /\ [](Ended =>
            \/ success
            \/ current_iteration = max_iterations
            \/ Aborted
            \/ max_iterations < 0 /\ current_iteration = 0)
    /\ [][pc' = "Generating" =>
              ~success /\ current_iteration < max_iterations]_vars

\* generate returned on a passed test before the budget was used
C2_Witness ==
    /\ pc = "Returned"
    /\ success
    /\ current_iteration >= 2
    /\ current_iteration < max_iterations

C4_AsStated ==
    \/ code_output = <<>>
    \/ extract_runs > 0 /\ extracted_files = <<>>
    \/ write_runs > 0 /\ written = <<>>
    => /\ Ended
       /\ ~success
       /\ pc = "Returned" => ~result

\* C4, for the write steps that return: an empty model response, an
\* extraction of zero files or a returned empty list of written files ends
\* the loop at once with success false, generate returns false, and once the
\* loop has ended no collaborator is called again.
C4_AbortEndsSession ==
    /\ [](Aborted => /\ Ended
                     /\ ~success
                     /\ pc = "Returned" => ~result)
    /\ [][Ended => pc' = "Returned" /\ Calls' = Calls]_vars

\* a session aborted by a write of zero files with budget left, after an
\* earlier pass had failed its tests
C4_Witness ==
    /\ pc = "Returned"
    /\ write_runs >= 2
    /\ file_paths = <<>>
    /\ current_iteration < max_iterations
    /\ ~result

NoTests(t) == ~t.installed
InstallFailed(t) == t.installed /\ ~t.ran
TestsFailed(t) == t.ran /\ ~t.success

\* C5: after a failed test run (tests failed, no test file, or installation
\* failed) with current_iteration below max_iterations the loop goes on to
\* another model call, whose prompt is the refined one: the prompt of the
\* failed pass followed by a text that holds the run's error; a failed run
\* that uses up the budget ends the loop and generate returns false; and
\* generate is never left by an exception after the test run of a pass.
C5_FailedVerdictRecoverable ==
    /\ [](\A i \in FailedRuns :
            IF i < max_iterations
            THEN \/ /\ i = Len(test_runs)
                    /\ Len(api_calls) = i
                    /\ pc \in {"Refining", "LoopHead", "Generating"}
                 \/ /\ Len(api_calls) > i
                    /\ IsPrefix(api_calls[i].prompt, api_calls[i + 1].prompt)
                    /\ Contains(api_calls[i + 1].prompt, test_runs[i].error)
                    /\ Truthy(test_runs[i].error) =>
                           api_calls[i + 1].prompt # api_calls[i].prompt
            ELSE /\ i = Len(test_runs)
                 /\ pc \in {"Refining", "LoopHead", "LoopExit", "Returned"}
                 /\ pc = "Returned" => ~result)
    /\ [](pc = "Raised" => Len(test_runs) < current_iteration)
    /\ [][pc = "Refining" =>
              /\ refine_runs' = refine_runs + 1
              /\ prompt' = UpdatePromptWithError(prompt, Last(test_runs).error,
                                                 extracted_files, disk)]_vars
    /\ [][Len(api_calls') > Len(api_calls) =>
              Last(api_calls').prompt = prompt]_vars

\* a session whose three passes failed in the three ways, each but the last
\* followed by another model call, and which returned false
C5_Witness ==
    /\ pc = "Returned"
    /\ ~result
    /\ Len(api_calls) = 3
    /\ Len(test_runs) = 3
    /\ \E i \in 1..3 : NoTests(test_runs[i])
    /\ \E i \in 1..3 : InstallFailed(test_runs[i])
    /\ \E i \in 1..3 : TestsFailed(test_runs[i])

\* C6: with max_iterations = 1 and a test run that fails, generate returns
\* false after exactly one model call, one extraction, one write and one test
\* run, and last_error is the error of that run.
C6_SingleIteration ==
    /\ pc = "Returned"
    /\ max_iterations = 1
    /\ test_runs # <<>>
    /\ FailedRuns = 1..Len(test_runs)
    => /\ ~result
       /\ Calls = <<1, 1, 1, 1, 1>>
       /\ current_iteration = 1
       /\ last_error = test_runs[1].error

\* generate returned after the one failed pass of a budget of one
C6_Witness ==
    /\ pc = "Returned"
    /\ max_iterations = 1
    /\ Len(test_runs) = 1
    /\ TestsFailed(test_runs[1])
    /\ Truthy(last_error)

\* C7: when the first test run fails and the second passes, the loop ends
\* there, generate returns true with current_iteration = 2, and the prompt of
\* the second model call holds the error of the first run.
C7_SecondPass ==
    /\ Len(test_runs) >= 2
    /\ ~test_runs[1].success
    /\ test_runs[2].success
    => /\ Ended
       /\ pc = "Returned" => result
       /\ current_iteration = 2
       /\ Len(api_calls) = 2
       /\ Len(test_runs) = 2
       /\ Contains(api_calls[2].prompt, test_runs[1].error)

\* generate returned after a failed first run, with an error that is not
\* empty, and a passed second run
C7_Witness ==
    /\ pc = "Returned"
    /\ Len(test_runs) = 2
    /\ Truthy(test_runs[1].error)
    /\ test_runs[2].success

\* the most recent failed test run
LastFailedRun == CHOOSE i \in FailedRuns : \A j \in FailedRuns : j <= i

\* C8: from the call of generate on, last_error is None while no test run
\* has failed and afterwards the error of the most recent failed test run,
\* whatever the later passes do.
C8_LastError ==
    InSession =>
        last_error = IF FailedRuns = {} THEN None
                     ELSE test_runs[LastFailedRun].error

\* two runs failed with different errors and the third pass was aborted
\* before its test run
C8_Witness ==
    /\ pc = "Returned"
    /\ Len(test_runs) = 2
    /\ current_iteration = 3
    /\ Aborted
    /\ ~test_runs[2].success
    /\ test_runs[1].error # test_runs[2].error
    /\ last_error = test_runs[2].error

\* the write step of the current pass has returned
ReachedWrite ==
    /\ current_iteration >= 1
    /\ write_runs = current_iteration
    /\ pc # "Raised"

Pairs(d) == {<<d[i].k, d[i].v>> : i \in 1..Len(d)}

\* C9 as stated: once the write step of a pass has returned,
\* last_code_output is exactly the path-to-content mapping of the files that
\* step wrote.
C9_AsStated == ReachedWrite => Pairs(last_code_output) = Pairs(written)

\* C9, amended: once the write step of a pass has returned, the keys of
\* last_code_output are the paths extracted in that pass and raw_output;
\* each extracted path maps to its extracted content; raw_output maps to the
\* whole response unless a file of that name was extracted; so every file
\* the step wrote is in the mapping with the content written, next to the
\* files whose write failed.
C9_LastCodeOutput ==
    ReachedWrite =>
        /\ DictKeys(last_code_output) =
               DictKeys(extracted_files) \cup {RawOutputKey}
        /\ \A k \in DictKeys(extracted_files) :
               DictGet(last_code_output, k) = DictGet(extracted_files, k)
        /\ ~DictHas(extracted_files, RawOutputKey) =>
               DictGet(last_code_output, RawOutputKey) = code_output
        /\ Pairs(written) \subseteq Pairs(last_code_output)

\* a pass whose write step wrote one of two extracted files
C9_Witness ==
    /\ ReachedWrite
    /\ Len(extracted_files) = 2
    /\ Len(written) = 1
    /\ pc = "Returned"

\* C10 as stated: when generate returns after at least one pass, every file
\* of the last model response is in the output directory with the content
\* the response gave it.
C10_AsStated ==
    pc = "Returned" /\ current_iteration >= 1 =>
        \A e \in Pairs(ExtractFiles(code_output).extracted) : disk[e[1]] = e[2]

\* C10, amended: when generate returns, every file the last write step
\* wrote is in the output directory with the content that step gave it,
\* also when a later pass was aborted before its write step.
C10_WrittenFilesOnDisk ==
    pc = "Returned" => \A e \in Pairs(written) : disk[e[1]] = e[2]

\* generate returned after an empty response in a later pass, with the
\* files of the pass before on disk
C10_Witness ==
    /\ pc = "Returned"
    /\ code_output = <<>>
    /\ Len(written) = 2
    /\ current_iteration >= 2

----------------------------------------------------------------------------
(* CodeGenerator._extract_files, one line of the response at a time, on     *)
(* responses put together from a few kinds of blocks, and the              *)
(* _write_files call that follows it in generate                            *)

\* the most blocks a response is made of
MaxBlocks == 3

ProseBlock == << <<"p">> >>

\* a complete fence for a.py
FenceA == << MarkFile \o PathA, <<"x">>, Fence >>

\* a second complete fence for a.py: another marker, a padded path, two lines
FenceA2 == << MarkPython \o <<" ">> \o PathA \o Fence, <<"y">>, <<"x">>, Fence >>

\* a complete fence for test_a.py
FenceT == << MarkFilepath \o PathTestA \o <<" ">>, <<"z">>, Fence >>

\* a fence for a.py with no content line
EmptyFence == << MarkFile \o PathA, Fence >>

\* a marker with no path, and a line after it
PathlessBlock == << MarkFile, <<"q">> >>

\* a fence for test_a.py that is not closed
UnclosedFence == << MarkFile \o PathTestA, <<"w">> >>

BareFence == << Fence >>

Blocks == {ProseBlock, FenceA, FenceA2, FenceT, EmptyFence, PathlessBlock,
           UnclosedFence, BareFence}

RECURSIVE Flatten(_)
Flatten(bs) == IF bs = <<>> THEN <<>> ELSE Head(bs) \o Flatten(Tail(bs))

ScanResponses ==
    {JoinLines(Flatten(bs)) :
        bs \in UNION {[1..n -> Blocks] : n \in 0..MaxBlocks}}

ScanInit ==
    /\ pc = "ExtractCalled"
    /\ code_output \in ScanResponses
    /\ max_iterations = DefaultMaxIterations
    /\ current_iteration = 0
    /\ last_code_output = <<>>
    /\ last_error = None
    /\ disk \in InitialDisks
    /\ prompt = None
    /\ repo_files = <<>>
    /\ extracted_files = <<>>
    /\ file_paths = <<>>
    /\ success = FALSE
    /\ error = None
    /\ result = FALSE
    /\ outcome = "Running"
    /\ api_calls = <<>>
    /\ extract_runs = 0
    /\ write_runs = 0
    /\ written = <<>>
    /\ test_runs = <<>>
    /\ refine_runs = 0
    /\ lines = <<>>
    /\ line_no = 0
    /\ current_file = None
    /\ current_content = <<>>
    /\ ClientIdle
    /\ SnapshotIdle
    /\ ConfigIdle

\* what the controller and the other helpers own
scan_frame == <<max_iterations, current_iteration, last_error, prompt,
                repo_files, code_output, success, error, result, outcome,
                api_calls, extract_runs, write_runs, test_runs, refine_runs>>

\* the state of the scan as ExtractLine takes it
ScanState ==
    [extracted |-> extracted_files,
     last_code_output |-> last_code_output,
     current_file |-> current_file,
     current_content |-> current_content]

\* lines 175 to 185
ExtractStart ==
    /\ pc = "ExtractCalled"
    /\ extracted_files' = <<>>
    /\ last_code_output' = <<[k |-> RawOutputKey, v |-> code_output]>>
    /\ lines' = SplitLines(code_output)
    /\ line_no' = 0
    /\ current_file' = None
    /\ current_content' = <<>>
    /\ pc' = "Scanning"
    /\ UNCHANGED <<scan_frame, disk, file_paths, written>>
    /\ UNCHANGED <<client_vars, snap_vars, config_vars>>

\* one pass of the loop of line 187
ScanLine ==
    /\ pc = "Scanning"
    /\ line_no < Len(lines)
    /\ LET st == ExtractLine(ScanState, lines[line_no + 1])
       IN  /\ extracted_files' = st.extracted
           /\ last_code_output' = st.last_code_output
           /\ current_file' = st.current_file
           /\ current_content' = st.current_content
    /\ line_no' = line_no + 1
    /\ UNCHANGED <<pc, lines, scan_frame, disk, file_paths, written>>
    /\ UNCHANGED <<client_vars, snap_vars, config_vars>>

\* lines 218 to 224: the last flush and the return
ExtractEnd ==
    /\ pc = "Scanning"
    /\ line_no = Len(lines)
    /\ LET st == FlushAtEnd(ScanState)
       IN  /\ extracted_files' = st.extracted
           /\ last_code_output' = st.last_code_output
           /\ current_content' = st.current_content
    /\ pc' = "Extracted"
    /\ UNCHANGED <<lines, line_no, current_file, scan_frame, disk, file_paths,
                   written>>
    /\ UNCHANGED <<client_vars, snap_vars, config_vars>>

\* generate's line 98 for the files just extracted
WriteExtracted ==
    /\ pc = "Extracted"
    /\ LET w == WriteFiles(extracted_files, disk)
       IN  /\ disk' = w.disk
           /\ written' =
                  SelectSeq(extracted_files,
                      LAMBDA e : \E i \in 1..Len(w.file_paths) :
                                     w.file_paths[i] = FullPath(e.k))
           /\ file_paths' = IF w.raised THEN file_paths ELSE w.file_paths
           /\ pc' = IF w.raised THEN "Raised" ELSE "ExtractWritten"
    /\ UNCHANGED <<scan_frame, scan_vars, extracted_files, last_code_output>>
    /\ UNCHANGED <<client_vars, snap_vars, config_vars>>

ScanNext == ExtractStart \/ ScanLine \/ ExtractEnd \/ WriteExtracted

ScanSpec == ScanInit /\ [][ScanNext]_vars

\* the scan, a line at a time, ends with what ExtractFiles computes at once
ScanAgreesWithExtractFiles ==
    pc = "Extracted" =>
        /\ extracted_files = ExtractFiles(code_output).extracted
        /\ last_code_output = ExtractFiles(code_output).last_code_output

----------------------------------------------------------------------------
(* Properties of the extraction.  A response is read here as the claims    *)
(* read it: prose lines and fences, a fence being a marker line that names *)
(* a path, content lines, and a bare closing fence                         *)

ScanPaths == {PathA, PathTestA}

Markers == {MarkFile, MarkPython, MarkFilepath}

\* rest is p with whitespace before it and whitespace and backticks after it
TrimsTo(rest, p) ==
    \E i \in 0..(Len(rest) - Len(p)) :
        /\ SubSeq(rest, i + 1, i + Len(p)) = p
        /\ \A k \in 1..i : rest[k] \in Whitespace
        /\ \A k \in (i + Len(p) + 1)..Len(rest) :
               rest[k] \in Whitespace \cup {BT}

\* line is a fence-open marker that names the path p
NamesPath(line, p) ==
    \E m \in Markers :
        /\ StartsWith(line, m)
        /\ TrimsTo(SubSeq(line, Len(m) + 1, Len(line)), p)

\* line is a fence-open marker with no path after the separator
IsPathless(line) == NamesPath(line, <<>>)

NamedPath(line) == CHOOSE p \in ScanPaths : NamesPath(line, p)

IsClosingFence(line) == line = Fence

IsContentLine(line) ==
    ~(\E m \in Markers : StartsWith(line, m)) /\ ~IsClosingFence(line)

\* how many content lines ls starts with
RECURSIVE ContentRun(_)
ContentRun(ls) ==
    IF ls # <<>> /\ IsContentLine(Head(ls))
    THEN 1 + ContentRun(Tail(ls))
    ELSE 0

\* the fences of a response made of prose lines and well-formed fences
\* alone, in order; ok is FALSE for any other response
RECURSIVE WellFormedFences(_)
WellFormedFences(ls) ==
    IF ls = <<>> THEN [ok |-> TRUE, fences |-> <<>>]
    ELSE IF ~(\E m \in Markers : StartsWith(Head(ls), m))
    THEN WellFormedFences(Tail(ls))
    ELSE LET n == ContentRun(Tail(ls))
             closed == Len(ls) >= n + 2 /\ IsClosingFence(ls[n + 2])
         IN  IF /\ \E p \in ScanPaths : NamesPath(Head(ls), p)
                /\ n >= 1
                /\ closed
             THEN LET more == WellFormedFences(SubSeq(ls, n + 3, Len(ls)))
                  IN  [ok |-> more.ok,
                       fences |->
                           <<[k |-> NamedPath(Head(ls)),
                              v |-> JoinLines(SubSeq(ls, 2, n + 1))]>>
                               \o more.fences]
             ELSE [ok |-> FALSE, fences |-> <<>>]

ResponseFences == WellFormedFences(lines).fences

WellFormedResponse == pc = "Extracted" /\ WellFormedFences(lines).ok

LastFenceFor(k) ==
    CHOOSE i \in 1..Len(ResponseFences) :
        /\ ResponseFences[i].k = k
        /\ \A j \in (i + 1)..Len(ResponseFences) : ResponseFences[j].k # k

NextLine == lines[line_no + 1]

Reading == pc = "Scanning" /\ line_no < Len(lines)

\* C12 as stated: reading a bare closing fence while a file is open clears
\* the open-file state, whatever content has been accumulated, and flushes
\* the accumulated content into the result.
C12_AsStated ==
    [][Reading /\ IsClosingFence(NextLine) /\ Truthy(current_file) =>
           /\ current_file' = None
           /\ current_content' = <<>>
           /\ current_content # <<>> =>
                  /\ DictHas(extracted_files', current_file)
                  /\ DictGet(extracted_files', current_file) =
                         JoinLines(current_content)]_vars

IsMarkerLine(line) == \E m \in Markers : StartsWith(line, m)

\* ls without the lines that follow a marker with no path, up to the next
\* marker; discarding tells whether the last marker read had no path
RECURSIVE DropDiscarded(_, _)
DropDiscarded(ls, discarding) ==
    IF ls = <<>> THEN <<>>
    ELSE IF IsMarkerLine(Head(ls))
    THEN <<Head(ls)>> \o DropDiscarded(Tail(ls), IsPathless(Head(ls)))
    ELSE IF discarding
    THEN DropDiscarded(Tail(ls), discarding)
    ELSE <<Head(ls)>> \o DropDiscarded(Tail(ls), discarding)

\* C13 as stated: the lines between a marker with no path and the next
\* marker are discarded: they have no part in the result, which is the
\* result for the response without them.
C13_AsStated ==
    pc = "Extracted" =>
        extracted_files =
            ExtractFiles(JoinLines(DropDiscarded(lines, FALSE))).extracted

\* the index of the last marker line of the response, 0 when it has none
LastMarker ==
    IF \E i \in 1..Len(lines) : IsMarkerLine(lines[i])
    THEN CHOOSE i \in 1..Len(lines) :
             /\ IsMarkerLine(lines[i])
             /\ \A j \in (i + 1)..Len(lines) : ~IsMarkerLine(lines[j])
    ELSE 0

\* the lines after the last marker
LastFenceLines == SubSeq(lines, LastMarker + 1, Len(lines))

\* the last fence of the response names a path, has content lines and is
\* never closed
LastFenceUnclosed ==
    /\ LastMarker > 0
    /\ \E p \in ScanPaths : NamesPath(lines[LastMarker], p)
    /\ LastFenceLines # <<>>
    /\ \A i \in 1..Len(LastFenceLines) : IsContentLine(LastFenceLines[i])

IsSuffix(a, b) ==
    Len(a) <= Len(b) /\ SubSeq(b, Len(b) - Len(a) + 1, Len(b)) = a

MarkersFor(p) == {i \in 1..Len(lines) : NamesPath(lines[i], p)}

\* the content of the fence opened at line i: the content lines after it
FenceContent(i) ==
    JoinLines(SubSeq(lines, i + 1,
                     i + ContentRun(SubSeq(lines, i + 1, Len(lines)))))

LaterFence(p) == CHOOSE i \in MarkersFor(p) : \A j \in MarkersFor(p) : j <= i

\* C15 as stated: when two fences of a response name one path, the result
\* has one entry for it, holding the content of the later fence, and after
\* the write step the file at that path holds that content.
C15_AsStated ==
    \A p \in ScanPaths :
        Cardinality(MarkersFor(p)) >= 2 =>
            /\ pc \in {"Extracted", "ExtractWritten"} =>
                   /\ Cardinality({i \in 1..Len(extracted_files) :
                                       extracted_files[i].k = p}) = 1
                   /\ DictGet(extracted_files, p) = FenceContent(LaterFence(p))
            /\ pc = "ExtractWritten" => disk[p] = FenceContent(LaterFence(p))

----------------------------------------------------------------------------
(* APIClient.generate_code (src/autocoder/core/api_client.py).  The texts  *)
(* it cuts, repo_context and context, are sequences of characters; of the  *)
(* prompt and the system prompt it reads the length alone                  *)

Min(a, b) == IF a <= b THEN a ELSE b

\* str.find: the index, from 0, of the first occurrence, or -1
Find(s, sub) ==
    IF Contains(s, sub)
    THEN CHOOSE i \in 0..(Len(s) - Len(sub)) :
             /\ SubSeq(s, i + 1, i + Len(sub)) = sub
             /\ \A j \in 0..(i - 1) : SubSeq(s, j + 1, j + Len(sub)) # sub
    ELSE -1

\* s[:n], n of either sign
SliceTo(s, n) ==
    IF n >= 0 THEN SubSeq(s, 1, Min(n, Len(s)))
    ELSE SubSeq(s, 1, Max(Len(s) + n, 0))

\* s[a:] and s[a:b] for a, b >= 0
SliceFrom(s, a) == SubSeq(s, a + 1, Len(s))

Slice(s, a, b) == SubSeq(s, a + 1, Min(b, Len(s)))

TOKEN_LIMIT == 32000

ESTIMATED_CHAR_PER_TOKEN == 4

ReservedTokens == 500

\* line 97
AvailableTokens(sc, pcs) ==
    TOKEN_LIMIT - (sc \div ESTIMATED_CHAR_PER_TOKEN)
        - (pcs \div ESTIMATED_CHAR_PER_TOKEN) - ReservedTokens

\* available_tokens * ESTIMATED_CHAR_PER_TOKEN
CharBudget(at) == at * ESTIMATED_CHAR_PER_TOKEN

FileSep == <<"<", "|", "f", "i", "l", "e", "_", "s", "e", "p", "|", ">">>

RepoNameTag == <<"<", "|", "r", "e", "p", "o", "_", "n", "a", "m", "e", "|", ">">>

\* the argument of the two repo_context.find calls
FileSepAtLineStart == <<"\n">> \o FileSep

\* lines 109 to 119: the file segments of files_part, rebuilt line by line
RECURSIVE CollectFiles(_, _, _)
CollectFiles(ls, files, cur) ==
    IF ls = <<>>
    THEN IF cur # <<>> THEN Append(files, cur) ELSE files
    ELSE IF StartsWith(Head(ls), FileSep)
    THEN CollectFiles(Tail(ls),
                      IF cur # <<>> THEN Append(files, cur) ELSE files,
                      Head(ls) \o <<"\n">>)
    ELSE CollectFiles(Tail(ls), files, cur \o Head(ls) \o <<"\n">>)

\* repo_context[:repo_name_end+1] and the files of the rest
RepoNamePart(rc) == SliceTo(rc, Find(rc, FileSepAtLineStart) + 1)

RepoFiles(rc) ==
    CollectFiles(SplitLines(SliceFrom(rc, Find(rc, FileSepAtLineStart) + 1)),
                 <<>>, <<>>)

\* LargestFirstFrom that takes the smallest file first
RECURSIVE SmallestFirstFrom(_, _)
SmallestFirstFrom(files, left) ==
    IF left = {} THEN <<>>
    ELSE LET i == CHOOSE i \in left : \A j \in left :
                      \/ Len(files[j]) > Len(files[i])
                      \/ Len(files[j]) = Len(files[i]) /\ i <= j
         IN  <<i>> \o SmallestFirstFrom(files, left \ {i})

\* lines 122 and 123: the indices in left by descending length; the sort is
\* stable, so of two files of one length the earlier comes first
RECURSIVE LargestFirstFrom(_, _)
LargestFirstFrom(files, left) ==
    IF left = {} THEN <<>>
    ELSE LET i == CHOOSE i \in left : \A j \in left :
                      \/ Len(files[j]) < Len(files[i])
                      \/ Len(files[j]) = Len(files[i]) /\ i <= j
         IN  <<i>> \o LargestFirstFrom(files, left \ {i})

\* sum(len(files[j]) for j in included_indices)
RECURSIVE TotalLength(_, _)
TotalLength(files, included) ==
    IF included = {} THEN 0
    ELSE LET i == CHOOSE i \in included : TRUE
         IN  Len(files[i]) + TotalLength(files, included \ {i})

\* lines 128 to 132
RECURSIVE DropUntilFits(_, _, _, _)
DropUntilFits(order, included, files, remaining_chars) ==
    IF order = <<>> THEN included
    ELSE IF TotalLength(files, included) <= remaining_chars THEN included
    ELSE DropUntilFits(Tail(order), included \ {Head(order)}, files,
                       remaining_chars)

\* whether lines 100 and 104 let the structured truncation happen
TruncatesStructured(rc, at) ==
    /\ Truthy(rc)
    /\ Len(rc) > CharBudget(at)
    /\ Find(rc, FileSepAtLineStart) > 0

\* included_indices after line 132
IncludedIndices(rc, at) ==
    LET files == RepoFiles(rc)
    IN  DropUntilFits(LargestFirstFrom(files, 1..Len(files)), 1..Len(files),
                      files, CharBudget(at) - Len(RepoNamePart(rc)))

\* InOriginalOrder that lists the indices from the last to the first
RECURSIVE InReverseOrder(_)
InReverseOrder(included) ==
    IF included = {} THEN <<>>
    ELSE LET i == CHOOSE i \in included : \A j \in included : j <= i
         IN  <<i>> \o InReverseOrder(included \ {i})

\* sorted(included_indices)
RECURSIVE InOriginalOrder(_)
InOriginalOrder(included) ==
    IF included = {} THEN <<>>
    ELSE LET i == CHOOSE i \in included : \A j \in included : i <= j
         IN  <<i>> \o InOriginalOrder(included \ {i})

\* lines 135 to 137
RECURSIVE Rebuild(_, _)
Rebuild(files, order) ==
    IF order = <<>> THEN <<>>
    ELSE files[Head(order)] \o Rebuild(files, Tail(order))

\* lines 100 to 140: repo_context after the structured truncation
BoundRepoContext(rc, at) ==
    IF TruncatesStructured(rc, at)
    THEN RepoNamePart(rc)
             \o Rebuild(RepoFiles(rc), InOriginalOrder(IncludedIndices(rc, at)))
    ELSE rc

\* lines 143 to 151
Combine(rc, ctx) ==
    LET base == IF Truthy(rc) THEN rc ELSE <<>>
    IN  IF Truthy(ctx)
        THEN IF base # <<>> THEN base \o <<"\n", "\n">> \o ctx ELSE ctx
        ELSE base

\* CutToBudget that cuts nothing
NoCut(cc, at) == cc

\* lines 154 to 156
CutToBudget(cc, at) ==
    IF cc # <<>> /\ Len(cc) > CharBudget(at)
    THEN SliceTo(cc, CharBudget(at))
    ELSE cc

----------------------------------------------------------------------------
(* The calls of generate_code that are examined *)

\* the most file segments of a repository context
MaxSegments == 3

\* the length of the long error context
LongContextLength == 60

\* "<|file_sep|>{file_path}\n{content}\n"
Segment(path, content) == FileSep \o path \o <<"\n">> \o content \o <<"\n">>

SegA == Segment(<<"a">>, <<"x">>)

SegB == Segment(<<"b">>, <<"y", "y", "y">>)

\* as long as SegB, with content of two lines
SegC == Segment(<<"c">>, <<"y", "\n", "y">>)

Segments == {SegA, SegB, SegC}

\* "<|repo_name|>{repo_name}\n"
RepoNameSegment == RepoNameTag \o <<"r", "\n">>

\* the repository contexts _generate_code builds, of up to MaxSegments files
StructuredContexts ==
    {RepoNameSegment \o Flatten(fs) :
        fs \in UNION {[1..n -> Segments] : n \in 0..MaxSegments}}

\* a context whose last line has no newline, and one that starts with a file
\* separator line
OtherContexts ==
    {SliceTo(RepoNameSegment \o SegA \o SegB, -1), <<"\n">> \o SegB \o SegA}

RepoContexts == StructuredContexts \cup OtherContexts \cup {None, <<>>}

RECURSIVE Repeat(_, _)
Repeat(c, n) == IF n <= 0 THEN <<>> ELSE <<c>> \o Repeat(c, n - 1)

ErrorContexts == {None, <<"e", "r", "r">>, Repeat("E", LongContextLength)}

\* [system, prompt]: len(system_prompt or "") and len(prompt); they leave
\* 31500, 9, 6, 13 and -10 tokens
ClientSizes ==
    {[system |-> 0, prompt |-> 0],
     [system |-> 7, prompt |-> ESTIMATED_CHAR_PER_TOKEN * (TOKEN_LIMIT - ReservedTokens - 10)],
     [system |-> 0, prompt |-> ESTIMATED_CHAR_PER_TOKEN * (TOKEN_LIMIT - ReservedTokens - 6)],
     [system |-> 0, prompt |-> ESTIMATED_CHAR_PER_TOKEN * (TOKEN_LIMIT - ReservedTokens - 13)],
     [system |-> 0, prompt |-> ESTIMATED_CHAR_PER_TOKEN * (TOKEN_LIMIT - ReservedTokens + 10)]}

\* max_retries and retry_delay of the signature: lines 69 and 70; the delay
\* is counted in sixteenths of a second
DefaultMaxRetries == 3

InitialRetryDelay == 32

\* what chat_completion does in one attempt: a text, an empty text, or an
\* exception with a message
ContextLengthMessage ==
    <<"C", "o", "n", "t", "e", "x", "t", " ", "l", "e", "n", "g", "t", "h">>

ErrorMessages == {ContextLengthMessage, <<"t", "i", "m", "e", "o", "u", "t">>}

ResponseText == <<"o", "k">>

ClientInit ==
    /\ pc = "ClientCalled"
    /\ \E sz \in ClientSizes :
           /\ system_chars = sz.system
           /\ prompt_chars = sz.prompt
    /\ context \in ErrorContexts
    /\ repo_context \in RepoContexts
    /\ given_repo_context = repo_context
    /\ max_retries \in 0..DefaultMaxRetries
    /\ retry_delay = InitialRetryDelay
    /\ available_tokens = 0
    /\ combined_context = <<>>
    /\ messages = <<>>
    /\ attempt = 0
    /\ sent = <<>>
    /\ sleeps = <<>>
    /\ response = None
    /\ max_iterations = DefaultMaxIterations
    /\ current_iteration = 0
    /\ last_code_output = <<>>
    /\ last_error = None
    /\ disk = EmptyDisk
    /\ prompt = None
    /\ repo_files = <<>>
    /\ code_output = None
    /\ extracted_files = <<>>
    /\ file_paths = <<>>
    /\ success = FALSE
    /\ error = None
    /\ result = FALSE
    /\ outcome = "Running"
    /\ api_calls = <<>>
    /\ extract_runs = 0
    /\ write_runs = 0
    /\ written = <<>>
    /\ test_runs = <<>>
    /\ refine_runs = 0
    /\ lines = <<>>
    /\ line_no = 0
    /\ current_file = None
    /\ current_content = <<>>
    /\ SnapshotIdle
    /\ ConfigIdle

SystemMessage == [role |-> "system", content |-> <<"<system_prompt>">>]

PromptMessage == [role |-> "user", content |-> <<"<prompt>">>]

ContextMessage(cc) == [role |-> "user", content |-> cc]

\* lines 87 to 163: the budget, the bounded context and the messages
BuildMessages ==
    /\ pc = "ClientCalled"
    /\ available_tokens' = AvailableTokens(system_chars, prompt_chars)
    /\ repo_context' = BoundRepoContext(repo_context, available_tokens')
    /\ combined_context' =
           CutToBudget(Combine(repo_context', context), available_tokens')
    /\ messages' =
           (IF system_chars > 0 THEN <<SystemMessage>> ELSE <<>>)
               \o (IF combined_context' # <<>>
                   THEN <<ContextMessage(combined_context')>>
                   ELSE <<>>)
               \o <<PromptMessage>>
    /\ pc' = "Attempting"
    /\ UNCHANGED <<prompt_chars, system_chars, context, given_repo_context,
                   max_retries, retry_delay, attempt, sent, sleeps, response>>
    /\ UNCHANGED <<max_iterations, current_iteration, last_error,
                   last_code_output, prompt, repo_files, code_output,
                   extracted_files, file_paths, success, error, result,
                   outcome, disk, api_calls, extract_runs, write_runs, written,
                   test_runs, refine_runs, scan_vars, snap_vars, config_vars>>

\* retry_delay *= 1.5
NextDelay(d) == (d * 3) \div 2

\* the rest of the controller's and the extraction's state, but pc
client_frame == <<max_iterations, current_iteration, last_error,
                  last_code_output, prompt, repo_files, code_output,
                  extracted_files, file_paths, success, error, result,
                  outcome, disk, api_calls, extract_runs, write_runs, written,
                  test_runs, refine_runs, scan_vars, snap_vars, config_vars,
                  prompt_chars,
                  system_chars, context, given_repo_context, max_retries,
                  available_tokens>>

\* lines 166 to 181, a response that is not empty
AttemptReturns(text) ==
    /\ pc = "Attempting"
    /\ attempt < max_retries
    /\ sent' = Append(sent, messages)
    /\ attempt' = attempt + 1
    /\ response' = text
    /\ pc' = "ClientReturned"
    /\ UNCHANGED <<client_frame, repo_context, retry_delay, combined_context,
                   messages, sleeps>>

\* lines 166 to 178, an empty response
AttemptEmpty ==
    /\ pc = "Attempting"
    /\ attempt < max_retries
    /\ sent' = Append(sent, messages)
    /\ attempt' = attempt + 1
    /\ IF attempt < max_retries - 1
       THEN /\ sleeps' = Append(sleeps, retry_delay)
            /\ UNCHANGED <<pc, response>>
       ELSE /\ response' = <<>>
            /\ pc' = "ClientReturned"
            /\ UNCHANGED sleeps
    /\ UNCHANGED <<client_frame, repo_context, retry_delay, combined_context,
                   messages>>

\* "context length" in str(e).lower()
IsContextLengthError(msg) ==
    Contains(Lower(msg), Lower(ContextLengthMessage))

\* lines 192 to 194 and 197: repo_context cut to the name and half the rest
Halved(rc) ==
    LET repo_name_end == Find(rc, FileSepAtLineStart)
        repo_name_part == SliceTo(rc, repo_name_end + 1)
        new_size == (Len(rc) - Len(repo_name_part)) \div 2
    IN  repo_name_part
            \o Slice(rc, repo_name_end + 1, repo_name_end + 1 + new_size)

\* lines 188 to 191: whether the context is reduced for the next attempt
Reduces(msg) ==
    /\ IsContextLengthError(msg)
    /\ Truthy(repo_context)
    /\ attempt < max_retries - 1
    /\ Find(repo_context, FileSepAtLineStart) > 0

\* lines 166 to 168 and 183 to 219, an exception of chat_completion
AttemptRaises(msg) ==
    /\ pc = "Attempting"
    /\ attempt < max_retries
    /\ sent' = Append(sent, messages)
    /\ attempt' = attempt + 1
    /\ IF Reduces(msg)
       THEN /\ repo_context' = Halved(repo_context)
            /\ combined_context' =
                   IF Truthy(context)
                   THEN repo_context' \o <<"\n", "\n">> \o context
                   ELSE repo_context'
            /\ messages' =
                   SelectSeq(messages, LAMBDA m : m.role # "user")
                       \o <<ContextMessage(combined_context'), PromptMessage>>
       ELSE UNCHANGED <<repo_context, combined_context, messages>>
    /\ IF attempt < max_retries - 1
       THEN /\ sleeps' = Append(sleeps, retry_delay)
            /\ retry_delay' = NextDelay(retry_delay)
            /\ UNCHANGED <<pc, response>>
       ELSE /\ pc' = "ClientRaised"
            /\ UNCHANGED <<sleeps, retry_delay, response>>
    /\ UNCHANGED client_frame

\* line 221: the loop made no attempt
NoAttempt ==
    /\ pc = "Attempting"
    /\ attempt >= max_retries
    /\ response' = <<>>
    /\ pc' = "ClientReturned"
    /\ UNCHANGED <<client_frame, repo_context, retry_delay, combined_context,
                   messages, attempt, sent, sleeps>>

ClientNext ==
    \/ BuildMessages
    \/ \E text \in {ResponseText} : AttemptReturns(text)
    \/ AttemptEmpty
    \/ \E msg \in ErrorMessages : AttemptRaises(msg)
    \/ NoAttempt

ClientSpec == ClientInit /\ [][ClientNext]_vars

----------------------------------------------------------------------------
(* Properties of generate_code *)

\* the messages are built and no attempt has been made
Built == pc = "Attempting" /\ attempt = 0

\* the context messages of the attempt whose messages are msgs
ContextsOf(msgs) ==
    {msgs[i].content : i \in {j \in 1..Len(msgs) :
                                  msgs[j].role = "user" /\ msgs[j] # PromptMessage}}

\* C16: for a positive budget, the context generate_code builds before its
\* first attempt, and sends in it, has at most
\* available_tokens * ESTIMATED_CHAR_PER_TOKEN characters, so its estimated
\* token count is within the budget.
C16_BoundedContext ==
    /\ Built /\ available_tokens > 0 =>
           /\ Len(combined_context) <= CharBudget(available_tokens)
           /\ Len(combined_context) \div ESTIMATED_CHAR_PER_TOKEN
                  <= available_tokens
    /\ sent # <<>> /\ available_tokens > 0 =>
           \A c \in ContextsOf(sent[1]) : Len(c) <= CharBudget(available_tokens)

\* a context longer than a positive budget was cut to the budget and sent
C16_Witness ==
    /\ sent # <<>>
    /\ available_tokens > 0
    /\ Len(Combine(given_repo_context, context)) > CharBudget(available_tokens)
    /\ Len(context) > CharBudget(available_tokens)
    /\ \E c \in ContextsOf(sent[1]) : Len(c) = CharBudget(available_tokens)

\* C17 as stated, for the calls with a positive budget: in no attempt is a
\* context sent that is longer than the character budget of the call.
C17_AsStated ==
    available_tokens > 0 =>
        \A i \in 1..Len(sent) : \A c \in ContextsOf(sent[i]) :
            Len(c) <= CharBudget(available_tokens)

\* generate_code has just cut a structured repository context
Bounded == Built /\ TruncatesStructured(given_repo_context, available_tokens)

\* the file segments of the context as given, and of the context as cut
GivenFiles == RepoFiles(given_repo_context)

KeptFiles ==
    CollectFiles(
        SplitLines(SliceFrom(repo_context, Len(RepoNamePart(given_repo_context)))),
        <<>>, <<>>)

\* a is b with some elements left out
RECURSIVE IsSubsequence(_, _)
IsSubsequence(a, b) ==
    IF a = <<>> THEN TRUE
    ELSE IF b = <<>> THEN FALSE
    ELSE IF Head(a) = Head(b) THEN IsSubsequence(Tail(a), Tail(b))
    ELSE IsSubsequence(a, Tail(b))

\* C18: after the structured truncation, the context is the repository
\* name part followed by kept file segments, and the kept segments stand in
\* the order they had in the context as given.
C18_OrderPreserved ==
    Bounded =>
        /\ IsPrefix(RepoNamePart(given_repo_context), repo_context)
        /\ IsSubsequence(KeptFiles, GivenFiles)

\* two different segments were kept and one was dropped
C18_Witness ==
    /\ Bounded
    /\ Len(GivenFiles) = 3
    /\ Len(KeptFiles) = 2
    /\ KeptFiles[1] # KeptFiles[2]

Kept == IncludedIndices(given_repo_context, available_tokens)

Dropped == (1..Len(GivenFiles)) \ Kept

\* what the budget leaves for the file segments: line 126
RemainingChars ==
    CharBudget(available_tokens) - Len(RepoNamePart(given_repo_context))

\* C19: the structured truncation keeps the repository name part and the
\* segments not dropped, in their order; every dropped segment is at least
\* as long as every kept one, and of two segments of one length the earlier
\* is dropped first; no segment is dropped once the kept ones fit, so each
\* dropped segment would not fit next to the kept ones; and the kept
\* segments fit what the budget leaves.
C19_LargestDroppedFirst ==
    Bounded =>
        /\ repo_context =
               RepoNamePart(given_repo_context)
                   \o Rebuild(GivenFiles, InOriginalOrder(Kept))
        /\ \A d \in Dropped : \A k \in Kept :
               /\ Len(GivenFiles[d]) >= Len(GivenFiles[k])
               /\ Len(GivenFiles[d]) = Len(GivenFiles[k]) => d < k
        /\ \A d \in Dropped :
               TotalLength(GivenFiles, Kept) + Len(GivenFiles[d])
                   > RemainingChars
        /\ Kept # {} => TotalLength(GivenFiles, Kept) <= RemainingChars

\* of two segments of one length the earlier was dropped and the later
\* kept, with a shorter one
C19_Witness ==
    /\ Bounded
    /\ Cardinality(Kept) = 2
    /\ \E d \in Dropped : \E k \in Kept :
           Len(GivenFiles[d]) = Len(GivenFiles[k])
    /\ \E k1 \in Kept : \E k2 \in Kept : Len(GivenFiles[k1]) < Len(GivenFiles[k2])

\* C20 as stated: at most max_retries attempts are made, and each wait
\* before a retry is longer than the wait before the retry before it.
C20_AsStated ==
    /\ attempt <= max_retries
    /\ Len(sent) <= max_retries
    /\ \A i \in 2..Len(sleeps) : sleeps[i] > sleeps[i - 1]

----------------------------------------------------------------------------
(* A session in which every call of api_client.generate_code is followed    *)
(* attempt by attempt: _generate_code calls it with the default            *)
(* max_retries, and what it returns or raises goes back to generate         *)

\* the largest max_iterations of such a session
SessionIterations == 8

\* the model's answers in such a session: one with a test file and one with
\* no file
SessionResponses == {RespFull, RespProse}

\* the test runs of such a session: passing, and failing with a diagnostic
SessionEnvs ==
    {env \in TestEnvs :
        env.install_ok /\ (env.returncode = 0 \/ env.stderr # <<>>)}

\* lines 141 to 150 as generate_code reads the text, character by character
RepoContextChars(files) ==
    IF files = <<>> THEN <<>>
    ELSE RepoNameTag \o <<RepoName, "\n">>
             \o Flatten([i \in 1..Len(files) |->
                            Segment(files[i].k, files[i].v)])

\* _generate_code up to the call of generate_code: lines 125 to 161
CallGenerateCode ==
    /\ pc = "Generating"
    /\ LET call == GenerateCodeCall(prompt, current_iteration - 1, last_error,
                                    repo_files)
       IN  /\ api_calls' = Append(api_calls, call)
           /\ prompt_chars' = Len(call.prompt)
           /\ system_chars' = Len(<<call.system_prompt>>)
           /\ context' = call.context
    /\ repo_context' = RepoContextChars(repo_files)
    /\ given_repo_context' = repo_context'
    /\ max_retries' = DefaultMaxRetries
    /\ retry_delay' = InitialRetryDelay
    /\ available_tokens' = 0
    /\ combined_context' = <<>>
    /\ messages' = <<>>
    /\ attempt' = 0
    /\ sent' = <<>>
    /\ sleeps' = <<>>
    /\ response' = None
    /\ pc' = "ClientCalled"
    /\ UNCHANGED <<max_iterations, current_iteration, last_error,
                   last_code_output, prompt, repo_files, code_output,
                   extracted_files, file_paths, success, error, result,
                   outcome, disk, extract_runs, write_runs, written,
                   test_runs, refine_runs, scan_vars, snap_vars, config_vars>>

\* generate_code returned or raised: _generate_code lines 163 to 171 and
\* generate lines 88 to 90.  The locals of generate_code are gone when the
\* session goes on; they are kept when it ends here
GenerateCodeReturns ==
    /\ pc \in {"ClientReturned", "ClientRaised"}
    /\ code_output' =
           GenerateCodeResult([raised |-> pc = "ClientRaised",
                               text |-> IF pc = "ClientRaised"
                                        THEN <<>> ELSE response])
    /\ IF EmptyOutput(code_output')
       THEN /\ outcome' = "EmptyResponse"
            /\ pc' = "LoopExit"
            /\ UNCHANGED client_vars
       ELSE /\ outcome' = outcome
            /\ pc' = "Extracting"
            /\ prompt_chars' = 0
            /\ system_chars' = 0
            /\ context' = None
            /\ repo_context' = None
            /\ given_repo_context' = None
            /\ max_retries' = 0
            /\ retry_delay' = 0
            /\ available_tokens' = 0
            /\ combined_context' = <<>>
            /\ messages' = <<>>
            /\ attempt' = 0
            /\ sent' = <<>>
            /\ sleeps' = <<>>
            /\ response' = None
    /\ UNCHANGED <<max_iterations, current_iteration, last_error,
                   last_code_output, prompt, repo_files, extracted_files,
                   file_paths, success, error, result, disk, api_calls,
                   extract_runs, write_runs, written, test_runs, refine_runs,
                   scan_vars, snap_vars, config_vars>>

SessionNext ==
    \/ \E mi \in 0..SessionIterations : Generate(mi)
    \/ NextIteration
    \/ LoopEnds
    \/ CallGenerateCode
    \/ BuildMessages
    \/ \E text \in SessionResponses : AttemptReturns(text)
    \/ AttemptEmpty
    \/ \E msg \in ErrorMessages : AttemptRaises(msg)
    \/ GenerateCodeReturns
    \/ Extract
    \/ Write
    \/ \E env \in SessionEnvs : Test(env)
    \/ Refine
    \/ Return

SessionSpec == Init /\ [][SessionNext]_vars

----------------------------------------------------------------------------
(* Properties of a session and its model calls *)

\* the attempt of this step fails with a context-length error, and a retry
\* remains
ContextLengthRetry ==
    /\ attempt < max_retries - 1
    /\ \E msg \in ErrorMessages :
           IsContextLengthError(msg) /\ AttemptRaises(msg)

\* the identifier header of a repository context, its first line, and the
\* file portion after it
HeaderOf(rc) == SliceTo(rc, Find(rc, <<"\n">>) + 1)

FilePortionOf(rc) == SliceFrom(rc, Len(HeaderOf(rc)))

\* C21 as stated: when an attempt fails with a context-length error and a
\* retry remains, the repository context of the next attempt is the header
\* and the first half of the file portion, it is what the next attempt
\* sends, and the step leaves current_iteration, max_iterations and the
\* count of model calls as they are.
C21_AsStated ==
    [][ContextLengthRetry /\ Truthy(repo_context) =>
           /\ repo_context' =
                  HeaderOf(repo_context)
                      \o SliceTo(FilePortionOf(repo_context),
                                 Len(FilePortionOf(repo_context)) \div 2)
           /\ \E c \in ContextsOf(messages') : IsPrefix(repo_context', c)
           /\ pc' = "Attempting"
           /\ UNCHANGED <<current_iteration, max_iterations, api_calls>>]_vars

\* the last call of generate_code raised, and the session has not gone on
GenerationRaised ==
    /\ pc \in {"ClientRaised", "LoopExit", "Returned"}
    /\ attempt > 0
    /\ response = None

\* every attempt of that call raised: the wait grew after each of them
EveryAttemptRaised ==
    /\ GenerationRaised
    /\ attempt = max_retries
    /\ Len(sleeps) = max_retries - 1
    /\ \A i \in 1..Len(sleeps) :
           sleeps[i] = IF i = 1 THEN InitialRetryDelay
                       ELSE NextDelay(sleeps[i - 1])

\* C22: once a call of generate_code has raised, as it does when every
\* attempt failed with a transport error, the session only ends: generate
\* leaves its loop and returns false, it does not raise, and no extraction,
\* write, test run, refinement or further model call follows.
C22_RaiseAbortsSession ==
    [][GenerationRaised =>
           /\ GenerationRaised'
           /\ pc' \in {"LoopExit", "Returned"}
           /\ pc' = "Returned" => result' = FALSE
           /\ UNCHANGED <<extract_runs, write_runs, test_runs, refine_runs,
                          api_calls, sent, disk, current_iteration>>]_vars

\* generate returned false in its second pass after three failed attempts,
\* the pass before having run the tests
C22_Witness ==
    /\ EveryAttemptRaised
    /\ pc = "Returned"
    /\ result = FALSE
    /\ current_iteration = 2
    /\ Len(test_runs) = 1
    /\ Len(sent) = DefaultMaxRetries

\* C26: the temperatures of the successive model calls of a session start
\* at 0.70, each is the one before less 0.05 but not less than 0.40, so
\* they never rise and never fall below 0.40 (in hundredths).
C26_Temperatures ==
    \A i \in 1..Len(api_calls) :
        /\ api_calls[i].temperature >= 40
        /\ i = 1 => api_calls[i].temperature = 70
        /\ i > 1 =>
               /\ api_calls[i].temperature <= api_calls[i - 1].temperature
               /\ api_calls[i].temperature =
                      Max(40, api_calls[i - 1].temperature - 5)

\* a session whose seventh and eighth calls are made at the floor
C26_Witness ==
    /\ Len(api_calls) = 8
    /\ api_calls[6].temperature = 45
    /\ api_calls[7].temperature = 40
    /\ api_calls[8].temperature = 40
    /\ current_iteration = 8

----------------------------------------------------------------------------
(* Properties of the write step and the test step *)

\* the write step of the current pass has been made
WriteStepMade ==
    /\ current_iteration >= 1
    /\ write_runs = current_iteration
    /\ pc # "Writing"

\* nothing on disk stands in the way of the file: no parent of its path is a
\* file, and no directory is at its path
CanBeMaterialized(path) ==
    /\ \A a \in Ancestors(path) : ~IsFile(disk[a])
    /\ disk[path] # DirEntry

InFilePaths(path) == \E i \in 1..Len(file_paths) : file_paths[i] = FullPath(path)

\* C23 as stated: the write step returns a list whatever fails: it does not
\* raise; each extracted file that nothing on disk stands in the way of is
\* written; the list holds exactly the files written; and the step ends the
\* session only when the list is empty.
C23_AsStated ==
    WriteStepMade =>
        /\ pc # "Raised"
        /\ \A e \in Pairs(extracted_files) :
               CanBeMaterialized(e[1]) => disk[e[1]] = e[2]
        /\ \A e \in Pairs(extracted_files) :
               InFilePaths(e[1]) <=> disk[e[1]] = e[2]
        /\ outcome = "NoWrites" => file_paths = <<>>

\* the verdict of the test step that this step makes
NewVerdict == Last(test_runs')

\* C24: the verdict of a test step has the diagnostic None only when it
\* passed; when pytest was run, the verdict passed exactly when its exit
\* code was 0, and the diagnostic of a failed run is its standard error if
\* that is not empty and its standard output otherwise; generate receives
\* this verdict.
C24_Verdict ==
    [][\A env \in TestEnvs :
           Test(env) =>
               /\ NewVerdict.error = None => NewVerdict.success
               /\ NewVerdict.success => NewVerdict.ran /\ NewVerdict.error = None
               /\ NewVerdict.ran =>
                      /\ NewVerdict.success <=> env.returncode = 0
                      /\ ~NewVerdict.success =>
                             NewVerdict.error =
                                 IF env.stderr # <<>> THEN env.stderr
                                 ELSE env.stdout
               /\ success' = NewVerdict.success
               /\ error' = NewVerdict.error]_vars

\* a session with a failed run whose diagnostic was its standard error, one
\* whose diagnostic was its standard output, and a run that passed
C24_Witness ==
    /\ Len(test_runs) = 3
    /\ test_runs[1].ran /\ test_runs[1].error = <<"a", ".", "p", "y", ":", "E">>
    /\ test_runs[2].ran /\ test_runs[2].error = <<"F">>
    /\ test_runs[3].ran /\ test_runs[3].success /\ test_runs[3].error = None

\* a file the write step of this pass wrote has "test" in its name
WroteTestFile ==
    \E e \in Pairs(written) : Contains(Lower(Basename(e[1])), TestWord)

\* C25: pytest is run in a test step only if the write step of the pass
\* wrote a file with "test" in its name and the installation step
\* succeeded; with no such file neither the installation nor pytest is
\* run, and after a failed installation pytest is not run; each of the two
\* gives a verdict that did not pass, with a diagnostic of its own.
C25_TestsRunOnlyWhen ==
    [][\A env \in TestEnvs :
           Test(env) =>
               /\ NewVerdict.ran => WroteTestFile /\ env.install_ok
               /\ ~WroteTestFile =>
                      /\ ~NewVerdict.installed /\ ~NewVerdict.ran
                      /\ ~NewVerdict.success
                      /\ NewVerdict.error = NoTestFilesMsg
               /\ WroteTestFile /\ ~env.install_ok =>
                      /\ NewVerdict.installed /\ ~NewVerdict.ran
                      /\ ~NewVerdict.success
                      /\ NewVerdict.error =
                             DependencyFailedMsg \o env.install_stderr
                      /\ NewVerdict.error # NoTestFilesMsg]_vars

\* a session with a test step that found no test file, one whose
\* installation failed and one that ran pytest
C25_Witness ==
    /\ Len(test_runs) = 3
    /\ \E i \in 1..3 : ~test_runs[i].installed
    /\ \E i \in 1..3 : test_runs[i].installed /\ ~test_runs[i].ran
    /\ \E i \in 1..3 : test_runs[i].ran

\* ---------------------------------------------------------------------
\* _get_repository_files, one file at a time

\* a text of n characters
Chars(n) == [i \in 1..n |-> "x"]

EmptySnapshotDisk == [l \in SnapshotLocs |-> NoEntry]

\* the first n files of a crowd, one character each
Crowd(d, crowd, n) ==
    [l \in SnapshotLocs |->
        IF \E i \in 1..n : crowd[i] = l THEN <<"x">> ELSE d[l]]

\* directories with about as many priority files as the file cap
CrowdedPriorityDisks ==
    {Crowd([EmptySnapshotDisk EXCEPT ![APy] = <<"x">>], CrowdP, n) :
        n \in (SnapshotFiles - 3)..SnapshotFiles}

\* directories with two priority files and about as many other files as
\* the file cap
CrowdedRootDisks ==
    {Crowd(Crowd(EmptySnapshotDisk, CrowdP, 2), CrowdRoot, n) :
        n \in (SnapshotFiles - 5)..SnapshotFiles}

\* a directory with every file the exclusions are about, and one more
ExcludedDisk ==
    [l \in SnapshotLocs |->
        IF l \in {ReadmeMd, MPyc, APy, GitConfig, PytestCacheTag, DNoteMd,
                  DMPyc, DGitConfig, DSampleS, SampleS, CrowdP[1]}
        THEN <<"x">> ELSE NoEntry]

SnapshotSizes == {1, 6000, 14000, 20000}

\* directories whose files come near the total size
SizedDisks ==
    {[EmptySnapshotDisk EXCEPT ![CrowdP[1]] = Chars(s1),
                               ![CrowdP[2]] = Chars(s2),
                               ![CrowdP[3]] = Chars(s3),
                               ![APy] = Chars(s4)] :
        s1 \in SnapshotSizes, s2 \in SnapshotSizes,
        s3 \in {0, 1, 6000}, s4 \in {1, 6000}}

\* directories with files over the per-file ceiling and files that are
\* not text
UnreadableDisks ==
    {[EmptySnapshotDisk EXCEPT ![CrowdP[1]] = e1,
                               ![CrowdP[2]] = <<"x">>,
                               ![CrowdRoot[1]] = e2,
                               ![CrowdRoot[2]] = <<"x">>] :
        e1 \in {Chars(MaxFileSize + 1), Undecodable},
        e2 \in {Chars(MaxFileSize + 1), Undecodable}}

SnapshotDisks ==
    CrowdedPriorityDisks \cup CrowdedRootDisks \cup {ExcludedDisk}
        \cup SizedDisks \cup UnreadableDisks

\* what the step-by-step scan leaves alone
snapshot_frame == <<max_iterations, current_iteration, last_error,
                    last_code_output, prompt, code_output, extracted_files,
                    file_paths, success, error, result, outcome, disk,
                    api_calls, extract_runs, write_runs, written, test_runs,
                    refine_runs, scan_vars, client_vars, config_vars>>

\* _get_repository_files(output_dir) has been called
SnapshotInit ==
    /\ pc = "SnapshotCalled"
    /\ disk \in SnapshotDisks
    /\ max_iterations = DefaultMaxIterations
    /\ current_iteration = 0
    /\ last_code_output = <<>>
    /\ last_error = None
    /\ prompt = None
    /\ repo_files = <<>>
    /\ code_output = None
    /\ extracted_files = <<>>
    /\ file_paths = <<>>
    /\ success = FALSE
    /\ error = None
    /\ result = FALSE
    /\ outcome = "Running"
    /\ api_calls = <<>>
    /\ extract_runs = 0
    /\ write_runs = 0
    /\ written = <<>>
    /\ test_runs = <<>>
    /\ refine_runs = 0
    /\ lines = <<>>
    /\ line_no = 0
    /\ current_file = None
    /\ current_content = <<>>
    /\ ClientIdle
    /\ SnapshotIdle
    /\ ConfigIdle

\* repo_files and current_total_size as the passes see them
SnapshotState == [repo_files |-> repo_files, size |-> current_total_size]

\* the setup and the loop that finds the priority files
SnapshotStart ==
    /\ pc = "SnapshotCalled"
    /\ pc' = "PriorityLoop"
    /\ repo_files' = <<>>
    /\ current_total_size' = 0
    /\ priority_files' = PriorityFiles(disk, 1, <<>>)
    /\ walk_files' = <<>>
    /\ examined' = <<>>
    /\ UNCHANGED <<snapshot_calls, snapshot_frame>>

\* one priority file is sized, read and stored or skipped
PriorityStep ==
    /\ pc = "PriorityLoop"
    /\ priority_files # <<>>
    /\ ~CapReached(SnapshotState)
    /\ LET rs == Collect(SnapshotState, disk, Head(priority_files))
       IN  /\ repo_files' = rs.repo_files
           /\ current_total_size' = rs.size
    /\ examined' = Append(examined, Head(priority_files))
    /\ priority_files' = Tail(priority_files)
    /\ UNCHANGED <<pc, walk_files, snapshot_calls, snapshot_frame>>

\* the break of the loop over priority_files
PriorityBreak ==
    /\ pc = "PriorityLoop"
    /\ priority_files # <<>>
    /\ CapReached(SnapshotState)
    /\ pc' = "PriorityDone"
    /\ UNCHANGED <<repo_files, snap_vars, snapshot_frame>>

\* the loop over priority_files runs out
PriorityEnds ==
    /\ pc = "PriorityLoop"
    /\ priority_files = <<>>
    /\ pc' = "PriorityDone"
    /\ UNCHANGED <<repo_files, snap_vars, snapshot_frame>>

\* there is room left: the second walk starts
FillStart ==
    /\ pc = "PriorityDone"
    /\ ~CapReached(SnapshotState)
    /\ pc' = "FillLoop"
    /\ walk_files' = WalkFiles(disk)
    /\ UNCHANGED <<repo_files, priority_files, current_total_size, examined,
                   snapshot_calls, snapshot_frame>>

\* there is no room left: the second walk is not made
FillNotMade ==
    /\ pc = "PriorityDone"
    /\ CapReached(SnapshotState)
    /\ pc' = "SnapshotReturned"
    /\ UNCHANGED <<repo_files, snap_vars, snapshot_frame>>

\* the second walk passes an excluded or an already collected file
FillPasses ==
    /\ pc = "FillLoop"
    /\ walk_files # <<>>
    /\ ~CapReached(SnapshotState)
    /\ is_excluded(Head(walk_files)) \/ DictHas(repo_files, Head(walk_files))
    /\ walk_files' = Tail(walk_files)
    /\ UNCHANGED <<pc, repo_files, priority_files, current_total_size,
                   examined, snapshot_calls, snapshot_frame>>

\* one file of the second walk is sized, read and stored or skipped
FillStep ==
    /\ pc = "FillLoop"
    /\ walk_files # <<>>
    /\ ~CapReached(SnapshotState)
    /\ ~is_excluded(Head(walk_files))
    /\ ~DictHas(repo_files, Head(walk_files))
    /\ LET rs == Collect(SnapshotState, disk, Head(walk_files))
       IN  /\ repo_files' = rs.repo_files
           /\ current_total_size' = rs.size
    /\ examined' = Append(examined, Head(walk_files))
    /\ walk_files' = Tail(walk_files)
    /\ UNCHANGED <<pc, priority_files, snapshot_calls, snapshot_frame>>

\* the breaks of the second walk
FillBreak ==
    /\ pc = "FillLoop"
    /\ walk_files # <<>>
    /\ CapReached(SnapshotState)
    /\ pc' = "SnapshotReturned"
    /\ UNCHANGED <<repo_files, snap_vars, snapshot_frame>>

\* the second walk runs out
FillEnds ==
    /\ pc = "FillLoop"
    /\ walk_files = <<>>
    /\ pc' = "SnapshotReturned"
    /\ UNCHANGED <<repo_files, snap_vars, snapshot_frame>>

SnapshotNext ==
    \/ SnapshotStart
    \/ PriorityStep
    \/ PriorityBreak
    \/ PriorityEnds
    \/ FillStart
    \/ FillNotMade
    \/ FillPasses
    \/ FillStep
    \/ FillBreak
    \/ FillEnds

SnapshotSpec == SnapshotInit /\ [][SnapshotNext]_vars

\* ---------------------------------------------------------------------
\* Properties of the repository snapshot

\* the characters of the contents of a snapshot
RECURSIVE SnapshotChars(_)
SnapshotChars(files) ==
    IF files = <<>> THEN 0 ELSE Len(Head(files).v) + SnapshotChars(Tail(files))

\* a cap has been reached, counted on the snapshot itself
AtCap(files) ==
    Len(files) >= MAX_FILES \/ SnapshotChars(files) >= MAX_TOTAL_SIZE

\* the step sizes or reads a file
Examines == examined' # examined

Examined == Last(examined')

\* the file can be read as text and is within the per-file ceiling
Readable(l) == disk[l] # Undecodable /\ Len(disk[l]) <= MaxFileSize

\* C28: every content of the snapshot is the whole content of its file; a
\* step that comes to a file which would take the total past
\* MAX_TOTAL_SIZE leaves the snapshot as it was and stays in its loop with
\* the files after it still to come; and a step that comes to a readable
\* file that fits stores it.
C28_NeverCuts ==
    /\ [](\A i \in 1..Len(repo_files) :
              repo_files[i].v = disk[repo_files[i].k])
    /\ [][Examines /\ Readable(Examined)
              /\ SnapshotChars(repo_files) + Len(disk[Examined])
                     > MAX_TOTAL_SIZE
            => /\ repo_files' = repo_files
               /\ pc' = pc
               /\ priority_files' \o walk_files'
                      = Tail(priority_files \o walk_files)]_vars
    /\ [][Examines /\ Readable(Examined)
              /\ SnapshotChars(repo_files) + Len(disk[Examined])
                     <= MAX_TOTAL_SIZE
            => /\ DictHas(repo_files', Examined)
               /\ Len(repo_files') = Len(repo_files) + 1]_vars

\* a returned snapshot that left out a readable file for its size and
\* holds a file the scan came to later
C28_Witness ==
    /\ pc = "SnapshotReturned"
    /\ \E i, j \in 1..Len(examined) :
           /\ i < j
           /\ Readable(examined[i])
           /\ ~DictHas(repo_files, examined[i])
           /\ DictHas(repo_files, examined[j])

\* the path ends with the suffix
HasSuffix(path, suffix) ==
    /\ Len(path) >= Len(suffix)
    /\ SubSeq(path, Len(path) - Len(suffix) + 1, Len(path)) = suffix

\* name is one of the directories on the way to the file
InsideDirectory(path, name) ==
    \E a \in Ancestors(path) : Basename(a) = name

IsMarkdown(path) == HasSuffix(path, <<".", "m", "d">>)

InVersionControl(path) == InsideDirectory(path, <<".", "g", "i", "t">>)

IsCacheOrBytecode(path) ==
    \/ HasSuffix(path, <<".", "p", "y", "c">>)
    \/ HasSuffix(path, <<".", "p", "y", "o">>)
    \/ InsideDirectory(path, <<"_", "_", "p", "y", "c", "a", "c", "h", "e", "_", "_">>)
    \/ InsideDirectory(path, <<".", "p", "y", "t", "e", "s", "t", "_", "c", "a", "c", "h", "e">>)

InSample(path) == InsideDirectory(path, <<"s", "a", "m", "p", "l", "e">>)

\* C29, as stated: the snapshot holds no markdown file, no file inside a
\* .git directory, no cache or bytecode file and no file inside a sample
\* directory, wherever under the root directory they lie.
C29_AsStated ==
    \A i \in 1..Len(repo_files) :
        /\ ~IsMarkdown(repo_files[i].k)
        /\ ~InVersionControl(repo_files[i].k)
        /\ ~IsCacheOrBytecode(repo_files[i].k)
        /\ ~InSample(repo_files[i].k)

\* ---------------------------------------------------------------------
\* _update_prompt_with_error on its own

\* an error of n characters that names a.py
ErrorNaming(n) == [i \in 1..n |-> IF i <= Len(APy) THEN APy[i] ELSE "E"]

\* an error of n characters that names no file
ErrorOf(n) == [i \in 1..n |-> "E"]

RefineErrors ==
    {None, <<>>, ErrorOf(1), ErrorNaming(Len(APy) + 2),
     ErrorNaming(ErrorLengthThreshold), ErrorOf(ErrorLengthThreshold),
     ErrorNaming(ErrorLengthThreshold + 1), ErrorOf(ErrorLengthThreshold + 1)}

\* the files of the previous pass
RefineFiles ==
    {<<>>,
     <<[k |-> APy, v |-> <<"x">>]>>,
     <<[k |-> DNoteMd, v |-> <<"x">>]>>,
     <<[k |-> DNoteMd, v |-> <<"x">>], [k |-> CrowdP[1], v |-> <<"x">>]>>,
     <<[k |-> CrowdP[1], v |-> <<"p", "\n", "q">>],
       [k |-> DNoteMd, v |-> <<"n">>],
       [k |-> APy, v |-> <<"r">>]>>}

\* output directories: empty, with nothing a snapshot takes, with one file
\* it takes, and with more than MAX_REPO_FILES of them
RefineDisks ==
    {EmptySnapshotDisk,
     [EmptySnapshotDisk EXCEPT ![DNoteMd] = <<"x">>],
     [EmptySnapshotDisk EXCEPT ![APy] = Chars(MAX_TOTAL_SIZE + 1)],
     [EmptySnapshotDisk EXCEPT ![APy] = <<"x">>],
     [EmptySnapshotDisk EXCEPT ![APy] = <<"x">>, ![DNoteMd] = <<"x">>],
     Crowd([EmptySnapshotDisk EXCEPT ![APy] = <<"x", "y">>], CrowdP,
           MAX_REPO_FILES + 1),
     [Crowd([EmptySnapshotDisk EXCEPT ![APy] = <<"x", "y">>], CrowdP,
            MAX_REPO_FILES + 1) EXCEPT ![CrowdP[2]] = <<"x", "y", "z">>]}

\* _update_prompt_with_error(prompt, error, files, output_dir) is called
RefineInit ==
    /\ pc = "Refining"
    /\ error \in RefineErrors
    /\ extracted_files \in RefineFiles
    /\ disk \in RefineDisks
    /\ prompt = InitialPrompt
    /\ max_iterations = DefaultMaxIterations
    /\ current_iteration = 0
    /\ last_code_output = <<>>
    /\ last_error = error
    /\ repo_files = <<>>
    /\ code_output = None
    /\ file_paths = <<>>
    /\ success = FALSE
    /\ result = FALSE
    /\ outcome = "Running"
    /\ api_calls = <<>>
    /\ extract_runs = 0
    /\ write_runs = 0
    /\ written = <<>>
    /\ test_runs = <<>>
    /\ refine_runs = 0
    /\ lines = <<>>
    /\ line_no = 0
    /\ current_file = None
    /\ current_content = <<>>
    /\ ClientIdle
    /\ SnapshotIdle
    /\ ConfigIdle

RefineNext == Refine

RefineSpec == RefineInit /\ [][RefineNext]_vars

\* the "# Repository Context" headings of a prompt
RepositorySections(p) ==
    Cardinality({i \in 1..Len(p) : p[i] = "\n\n# Repository Context\n"})

\* no file of the previous pass has its name in the diagnostic
NoneProblematic ==
    \A i \in 1..Len(extracted_files) :
        ~Contains(error, Basename(extracted_files[i].k))

\* the condition of the claim
SnapshotCalledFor == NoneProblematic \/ Len(error) > ErrorLengthThreshold

\* the step appends a repository section to the prompt
AppendsSnapshot == RepositorySections(prompt') = RepositorySections(prompt) + 1

\* C30, as stated: a refine step with a diagnostic appends a repository
\* snapshot to the prompt if and only if no previous file was problematic
\* or the diagnostic is longer than ErrorLengthThreshold.
C30_AsStated ==
    [][Refine /\ Truthy(error) => (AppendsSnapshot <=> SnapshotCalledFor)]_vars

\* C30, amended: a refine step with a diagnostic takes a snapshot if and
\* only if no previous file was problematic or the diagnostic is longer
\* than ErrorLengthThreshold, and it appends the repository section, made
\* of that snapshot cut to its MAX_REPO_FILES smallest files, if and only
\* if moreover the snapshot is not empty; otherwise no snapshot is taken
\* and the prompt gets no repository section.
C30_SnapshotWhen ==
    [][Refine /\ Truthy(error) =>
           LET fresh == GetRepositoryFiles(disk)
               section == <<"\n\n# Repository Context\n">>
                              \o RepoContext(LimitRepoFiles(fresh))
           IN  /\ snapshot_calls' =
                      snapshot_calls + (IF SnapshotCalledFor THEN 1 ELSE 0)
               /\ AppendsSnapshot <=> SnapshotCalledFor /\ fresh # <<>>
               /\ ~AppendsSnapshot =>
                      RepositorySections(prompt') = RepositorySections(prompt)
               /\ AppendsSnapshot =>
                      /\ Len(LimitRepoFiles(fresh)) <= MAX_REPO_FILES
                      /\ SubSeq(prompt', Len(prompt') - Len(section) + 1,
                                Len(prompt')) = section]_vars

\* a refine step whose diagnostic named a previous file and was longer
\* than the threshold, and which took a snapshot and appended it
C30_Witness ==
    /\ refine_runs = 1
    /\ pc = "LoopHead"
    /\ ~NoneProblematic
    /\ Len(error) > ErrorLengthThreshold
    /\ snapshot_calls = 1
    /\ RepositorySections(prompt) = 1

\* ---------------------------------------------------------------------
\* Properties of the refined prompt

\* the places of a prompt where a problematic file is announced
Announcements(p) ==
    {i \in 1..Len(p) : p[i] = "\nThe problematic file was "}

\* the n-th of them
Announcement(p, n) ==
    CHOOSE i \in Announcements(p) :
        Cardinality({j \in Announcements(p) : j < i}) = n - 1

\* the previous files whose last path component occurs in the diagnostic
NamedInDiagnostic ==
    SelectSeq(extracted_files, LAMBDA e : Contains(error, Basename(e.k)))

\* at place i the prompt announces the file e and gives its whole content
\* in a fence
Announces(p, i, e) ==
    LET text == <<"\nThe problematic file was ", BT>> \o e.k
                    \o <<BT, ":\n", BT, BT, BT, "python\n">> \o e.v
                    \o <<"\n", BT, BT, BT, "\n">>
    IN  /\ i + Len(text) - 1 <= Len(p)
        /\ SubSeq(p, i, i + Len(text) - 1) = text

\* C31: a refine step with a diagnostic announces as problematic exactly
\* the previous files whose last path component occurs in the diagnostic,
\* each once with its whole content, in the order of the mapping.
C31_ProblematicFiles ==
    [][Refine /\ Truthy(error) =>
           /\ Announcements(prompt) = {}
           /\ Cardinality(Announcements(prompt')) = Len(NamedInDiagnostic)
           /\ \A n \in 1..Len(NamedInDiagnostic) :
                  Announces(prompt', Announcement(prompt', n),
                            NamedInDiagnostic[n])]_vars

\* a refined prompt that announces two of three previous files, one of
\* them named in the diagnostic by its last component only
C31_Witness ==
    /\ refine_runs = 1
    /\ Len(extracted_files) = 3
    /\ Cardinality(Announcements(prompt)) = 2
    /\ ~Contains(error, extracted_files[1].k)
    /\ Announces(prompt, Announcement(prompt, 1), extracted_files[1])
    /\ Announces(prompt, Announcement(prompt, 2), extracted_files[3])

\* the banner that embeds a diagnostic in a fence
ErrorBanner(err) ==
    <<"\n\n# Previous Error\nThe previous code generation attempt failed with the following error:\n",
      BT, BT, BT, "\n">>
        \o err
        \o <<"\n", BT, BT, BT,
             "\nPlease fix the issues and regenerate the code.">>

\* C32: a refine step with an empty or absent diagnostic leaves the prompt
\* as it was and takes no snapshot; with a diagnostic, the new prompt is the
\* old one followed by the banner with the diagnostic as it is, and then by
\* whatever else the step appends.
C32_EmptyDiagnostic ==
    [][Refine =>
           IF error = None \/ error = <<>>
           THEN prompt' = prompt /\ snapshot_calls' = snapshot_calls
           ELSE IsPrefix(prompt \o ErrorBanner(error), prompt')]_vars

\* refine steps made with an absent diagnostic: the prompt is the initial
\* one and no snapshot was taken
C32_Witness ==
    /\ refine_runs = 1
    /\ error = None
    /\ prompt = InitialPrompt
    /\ snapshot_calls = 0
    /\ disk # EmptySnapshotDisk

\* ---------------------------------------------------------------------
\* Config (utils/config.py)

\* the number of Config objects constructed
MaxConfigs == 2

\* the number of Config operations of a run
MaxConfigOps == 4

\* key.split(".")
RECURSIVE SplitFrom(_, _)
SplitFrom(s, cur) ==
    IF s = <<>> THEN <<cur>>
    ELSE IF Head(s) = "." THEN <<cur>> \o SplitFrom(Tail(s), <<>>)
    ELSE SplitFrom(Tail(s), Append(cur, Head(s)))

SplitKey(key) == SplitFrom(key, <<>>)

\* isinstance(value, dict)
IsDict(value) == value.t = "dict" \/ value = ModelRef

\* the entries of a dictionary, m being what the shared one holds
Entries(value, m) == IF value = ModelRef THEN m ELSE value.v

\* the loop of get
RECURSIVE GetFrom(_, _, _, _)
GetFrom(value, keys, default, m) ==
    IF keys = <<>> THEN value
    ELSE IF IsDict(value) /\ Head(keys) \in DOMAIN Entries(value, m)
    THEN GetFrom(Entries(value, m)[Head(keys)], Tail(keys), default, m)
    ELSE default

\* Config.get(key, default) on the instance whose self.config is top
ConfigGet(top, key, default, m) ==
    GetFrom(Dict(top), SplitKey(key), default, m)

\* a Put that keeps the value of a key that is there
PutIfAbsent(entries, k, value) ==
    [x \in DOMAIN entries \cup {k} |->
        IF x \in DOMAIN entries THEN entries[x] ELSE value]

\* target[k] = value
Put(entries, k, value) ==
    [x \in DOMAIN entries \cup {k} |-> IF x = k THEN value ELSE entries[x]]

\* the loop and the assignment of set on the dictionary with these
\* entries: the entries after it, what the shared dictionary holds after
\* it, and whether a TypeError was raised
RECURSIVE SetIn(_, _, _, _)
SetIn(entries, keys, value, m) ==
    IF Len(keys) = 1
    THEN [entries |-> Put(entries, keys[1], value), m |-> m, raised |-> FALSE]
    ELSE LET k == Head(keys)
             child == IF k \in DOMAIN entries THEN entries[k] ELSE EmptyDict
         IN  IF child = ModelRef
             THEN LET r == SetIn(m, Tail(keys), value, m)
                  IN  [entries |-> entries, m |-> r.entries,
                       raised |-> r.raised]
             ELSE IF child.t = "dict"
             THEN LET r == SetIn(child.v, Tail(keys), value, m)
                  IN  [entries |-> IF r.raised THEN entries
                                   ELSE Put(entries, k, Dict(r.entries)),
                       m |-> r.m, raised |-> r.raised]
             ELSE [entries |-> entries, m |-> m, raised |-> TRUE]

\* dict.update
Update(a, b) ==
    [x \in DOMAIN a \cup DOMAIN b |-> IF x \in DOMAIN b THEN b[x] ELSE a[x]]

\* _merge_config(new_config): self.config and the shared dictionary after it
MergeConfig(top, m, new_config) ==
    LET updates(k) == /\ new_config[k].t = "dict"
                      /\ k \in DOMAIN top
                      /\ IsDict(top[k])
        shared == {k \in DOMAIN new_config : updates(k) /\ top[k] = ModelRef}
    IN  [top |-> [k \in DOMAIN top \cup DOMAIN new_config |->
                     IF k \notin DOMAIN new_config THEN top[k]
                     ELSE IF ~updates(k) THEN new_config[k]
                     ELSE IF top[k] = ModelRef THEN ModelRef
                     ELSE Dict(Update(top[k].v, new_config[k].v))],
         m |-> IF shared = {} THEN m
               ELSE Update(m, new_config[CHOOSE k \in shared : TRUE].v)]

\* yaml.dump: the document lists every scalar and every empty dictionary
\* under the keys that lead to it
RECURSIVE Leaves(_, _, _)
Leaves(value, path, m) ==
    IF ~IsDict(value) THEN {[path |-> path, value |-> value]}
    ELSE IF DOMAIN Entries(value, m) = {}
    THEN {[path |-> path, value |-> EmptyDict]}
    ELSE UNION {Leaves(Entries(value, m)[k], Append(path, k), m) :
                    k \in DOMAIN Entries(value, m)}

Dump(top, m) == UNION {Leaves(top[k], <<k>>, m) : k \in DOMAIN top}

\* yaml.safe_load: the nested dictionaries of a document
RECURSIVE Build(_, _)
Build(doc, prefix) ==
    LET under == {l \in doc : /\ Len(l.path) > Len(prefix)
                              /\ SubSeq(l.path, 1, Len(prefix)) = prefix}
        keys == {l.path[Len(prefix) + 1] : l \in under}
    IN  [k \in keys |->
            IF \E l \in under : l.path = Append(prefix, k)
            THEN (CHOOSE l \in under : l.path = Append(prefix, k)).value
            ELSE Dict(Build(doc, Append(prefix, k)))]

SafeLoad(doc) == Build(doc, <<>>)

\* the part of _load_config for one file
LoadFile(c, file) ==
    IF ~file.exists \/ file.doc = {} THEN c
    ELSE MergeConfig(c.top, c.m, SafeLoad(file.doc))

TrueWords == {<<"t", "r", "u", "e">>, <<"1">>, <<"y", "e", "s">>}

\* _load_from_env: self.config, the shared dictionary and whether the
\* assignment into self.config["model"] raised
LoadFromEnv(c, env) ==
    LET model == c.top[KModel]
        sets == env[EnvTemperature] # Unset
        temp == IF sets THEN FloatValue(env[EnvTemperature]) ELSE NoneValue
        raised == sets /\ ~IsDict(model)
        top1 == IF sets /\ model.t = "dict"
                THEN Put(c.top, KModel, Dict(Put(model.v, KTemperature, temp)))
                ELSE c.top
        m1 == IF sets /\ model = ModelRef THEN Put(c.m, KTemperature, temp)
              ELSE c.m
        top2 == IF ~raised /\ env[EnvVerbose] # Unset
                THEN Put(top1, KVerbose,
                         BoolValue(Lower(env[EnvVerbose]) \in TrueWords))
                ELSE top1
    IN  [top |-> top2, m |-> m1, raised |-> raised]

\* Config(): the copy of DEFAULT_CONFIG, the two files and the environment
Constructed(m, gfile, pfile, env) ==
    LoadFromEnv(LoadFile(LoadFile([top |-> DEFAULT_CONFIG, m |-> m], gfile),
                         pfile), env)

KTestKey == <<"t", "e", "s", "t", "_", "k", "e", "y">>

SetKeys ==
    {<<"m", "o", "d", "e", "l", ".", "t", "e", "m", "p", "e", "r", "a", "t", "u", "r", "e">>,
     KVerbose, KTestKey,
     <<"n", "e", "s", "t", "e", "d", ".", "k", "e", "y">>,
     <<"v", "e", "r", "b", "o", "s", "e", ".", "z">>}

SetValues == {FloatValue(<<"0", ".", "9">>), StrValue(<<"v">>)}

\* a ~/.autocoder.yaml and a ./.autocoder.yaml
GlobalDocument ==
    {[path |-> <<KModel, KTemperature>>, value |-> FloatValue(<<"0", ".", "5">>)],
     [path |-> <<KVerbose>>, value |-> BoolValue(FALSE)],
     [path |-> <<KTestKey>>, value |-> StrValue(<<"g">>)]}

ProjectDocument ==
    {[path |-> <<KModel, KTemperature>>, value |-> FloatValue(<<"0", ".", "3">>)],
     [path |-> <<KTestKey>>, value |-> StrValue(<<"p">>)]}

Environments ==
    {NoEnvironment,
     [NoEnvironment EXCEPT ![EnvTemperature] = <<"0", ".", "7", "5">>],
     [NoEnvironment EXCEPT ![EnvVerbose] = <<"f", "a", "l", "s", "e">>],
     [NoEnvironment EXCEPT ![EnvTemperature] = <<"0", ".", "7", "5">>, ![EnvVerbose] = <<"Y", "E", "S">>]}

config_frame == <<pc, max_iterations, current_iteration, last_error,
                  last_code_output, prompt, repo_files, code_output,
                  extracted_files, file_paths, success, error, result,
                  outcome, disk, api_calls, extract_runs, write_runs,
                  written, test_runs, refine_runs, scan_vars, client_vars,
                  snap_vars>>

\* the module has been imported, in some directory and environment
ConfigInit ==
    /\ configs = <<>>
    /\ default_model = DefaultModel
    /\ global_file \in {NoFile, File(GlobalDocument)}
    /\ project_file \in {NoFile, File(ProjectDocument)}
    /\ environ \in Environments
    /\ config_ops = 0
    /\ pc = "Idle"
    /\ max_iterations = DefaultMaxIterations
    /\ current_iteration = 0
    /\ last_code_output = <<>>
    /\ last_error = None
    /\ disk = EmptyDisk
    /\ prompt = None
    /\ repo_files = <<>>
    /\ code_output = None
    /\ extracted_files = <<>>
    /\ file_paths = <<>>
    /\ success = FALSE
    /\ error = None
    /\ result = FALSE
    /\ outcome = "Running"
    /\ api_calls = <<>>
    /\ extract_runs = 0
    /\ write_runs = 0
    /\ written = <<>>
    /\ test_runs = <<>>
    /\ refine_runs = 0
    /\ lines = <<>>
    /\ line_no = 0
    /\ current_file = None
    /\ current_content = <<>>
    /\ ClientIdle
    /\ SnapshotIdle

\* Config()
NewConfig ==
    /\ Len(configs) < MaxConfigs
    /\ config_ops < MaxConfigOps
    /\ LET c == Constructed(default_model, global_file, project_file, environ)
       IN  /\ configs' = IF c.raised THEN configs ELSE Append(configs, c.top)
           /\ default_model' = c.m
    /\ config_ops' = config_ops + 1
    /\ UNCHANGED <<global_file, project_file, environ, config_frame>>

\* configs[i].set(key, value)
ConfigSet(i, key, value) ==
    /\ config_ops < MaxConfigOps
    /\ LET r == SetIn(configs[i], SplitKey(key), value, default_model)
       IN  /\ configs' = [configs EXCEPT ![i] = r.entries]
           /\ default_model' = r.m
    /\ config_ops' = config_ops + 1
    /\ UNCHANGED <<global_file, project_file, environ, config_frame>>

\* configs[i].save(global_config)
ConfigSave(i, global_config) ==
    /\ config_ops < MaxConfigOps
    /\ IF global_config
       THEN /\ global_file' = File(Dump(configs[i], default_model))
            /\ UNCHANGED project_file
       ELSE /\ project_file' = File(Dump(configs[i], default_model))
            /\ UNCHANGED global_file
    /\ config_ops' = config_ops + 1
    /\ UNCHANGED <<configs, default_model, environ, config_frame>>

\* the files and the variables are taken away, as at the end of a test
CleanEnvironment ==
    /\ global_file # NoFile \/ project_file # NoFile \/ environ # NoEnvironment
    /\ global_file' = NoFile
    /\ project_file' = NoFile
    /\ environ' = NoEnvironment
    /\ UNCHANGED <<configs, default_model, config_ops, config_frame>>

ConfigNext ==
    \/ NewConfig
    \/ \E i \in 1..Len(configs), key \in SetKeys, value \in SetValues :
           ConfigSet(i, key, value)
    \/ \E i \in 1..Len(configs), global_config \in BOOLEAN :
           ConfigSave(i, global_config)
    \/ CleanEnvironment

ConfigSpec == ConfigInit /\ [][ConfigNext]_vars

\* ---------------------------------------------------------------------
\* Properties of Config

\* the keys that get is asked for
ProbeKeys ==
    SetKeys \cup {KModel, <<"m", "o", "d", "e", "l", ".", "s", "e", "e", "d">>,
                  <<"n", "o", "n", "e", "x", "i", "s", "t", "e", "n", "t", "_", "k", "e", "y">>,
                  <<"n", "e", "s", "t", "e", "d">>,
                  <<"m", "o", "d", "e", "l", ".", "z">>}

\* something under the keys of this dotted key is in the configuration
KeyExists(top, key, m) ==
    \E l \in Dump(top, m) : IsPrefix(SplitKey(key), l.path)

\* no key before the last one of the dotted key leads to a scalar
IntermediatesAllow(top, key, m) ==
    \A l \in Dump(top, m) :
        Len(l.path) < Len(SplitKey(key)) /\ IsPrefix(l.path, SplitKey(key))
            => l.value.t = "dict"

\* a default that no configuration holds
SomeDefault == StrValue(<<"d">>)

\* C33: after set(key, v) on a Config whose dictionaries allow it, get(key)
\* on that Config returns v, for top-level and nested keys, new and
\* overwritten; and get of a key that is not there returns the default
\* given, or None when none is given.
C33_SetThenGet ==
    /\ [][\A i \in 1..Len(configs), key \in SetKeys, value \in SetValues :
              ConfigSet(i, key, value)
                  /\ IntermediatesAllow(configs[i], key, default_model)
                => ConfigGet(configs'[i], key, SomeDefault, default_model')
                       = value]_vars
    /\ [](\A i \in 1..Len(configs), key \in ProbeKeys :
              ~KeyExists(configs[i], key, default_model)
                => /\ ConfigGet(configs[i], key, SomeDefault, default_model)
                          = SomeDefault
                   /\ ConfigGet(configs[i], key, NoneValue, default_model)
                          = NoneValue)

\* a Config on which a nested key was created and a default overwritten,
\* and which lacks another key
C33_Witness ==
    \E i \in 1..Len(configs) :
        /\ ConfigGet(configs[i], <<"n", "e", "s", "t", "e", "d", ".", "k", "e", "y">>,
                     SomeDefault, default_model) = StrValue(<<"v">>)
        /\ ConfigGet(configs[i], <<"m", "o", "d", "e", "l", ".", "t", "e", "m", "p", "e", "r", "a", "t", "u", "r", "e">>,
                     SomeDefault, default_model) = FloatValue(<<"0", ".", "9">>)
        /\ ~KeyExists(configs[i], KTestKey, default_model)

\* the keys whose resolution is looked at
ResolvedKeys ==
    {<<"m", "o", "d", "e", "l", ".", "t", "e", "m", "p", "e", "r", "a", "t", "u", "r", "e">>,
     <<"m", "o", "d", "e", "l", ".", "s", "e", "e", "d">>,
     KVerbose, KMaxTestIterations, KTestKey}

\* no value is given
NotGiven == [t |-> "not given", v |-> <<>>]

\* the value the environment gives for a key, if any
FromEnvironment(key) ==
    IF key = <<"m", "o", "d", "e", "l", ".", "t", "e", "m", "p", "e", "r", "a", "t", "u", "r", "e">>
           /\ environ[EnvTemperature] # Unset
    THEN FloatValue(environ[EnvTemperature])
    ELSE IF key = KVerbose /\ environ[EnvVerbose] # Unset
    THEN BoolValue(Lower(environ[EnvVerbose]) \in TrueWords)
    ELSE NotGiven

\* the value a file gives for a key, if any
FromFile(file, key) ==
    IF file.exists /\ \E l \in file.doc : l.path = SplitKey(key)
    THEN (CHOOSE l \in file.doc : l.path = SplitKey(key)).value
    ELSE NotGiven

\* the value the module's DEFAULT_CONFIG literal gives for a key, or None
BuiltIn(key) == ConfigGet(DEFAULT_CONFIG, key, NoneValue, DefaultModel)

\* environment over project file over global file over built-in default
Resolved(key) ==
    IF FromEnvironment(key) # NotGiven THEN FromEnvironment(key)
    ELSE IF FromFile(project_file, key) # NotGiven THEN FromFile(project_file, key)
    ELSE IF FromFile(global_file, key) # NotGiven THEN FromFile(global_file, key)
    ELSE BuiltIn(key)

\* the step constructs a Config
Constructs == NewConfig /\ Len(configs') = Len(configs) + 1

\* C34, as stated: a newly constructed Config returns for each key the
\* value of the environment variable, else of the project file, else of
\* the global file, else the built-in default; and a file written by save
\* holds the values of the Config that saved it.
C34_AsStated ==
    /\ [][Constructs =>
              \A key \in ResolvedKeys :
                  ConfigGet(Last(configs'), key, NoneValue, default_model')
                      = Resolved(key)]_vars
    /\ [][\A i \in 1..Len(configs) :
              ConfigSave(i, TRUE) =>
                  \A key \in ResolvedKeys :
                      KeyExists(configs[i], key, default_model) =>
                          FromFile(global_file', key)
                              = ConfigGet(configs[i], key, NoneValue,
                                          default_model)]_vars

\* the values of the shared dictionary are those of the module's literal
DefaultsIntact == default_model = DefaultModel

\* C40, as stated: a set on one Config changes what get returns on no
\* other Config, no operation changes the defaults of DEFAULT_CONFIG, and
\* a Config constructed with no file and no environment variable returns
\* the built-in default for every default key.
C40_AsStated ==
    /\ [][\A i \in 1..Len(configs), key \in SetKeys, value \in SetValues :
              ConfigSet(i, key, value) =>
                  \A j \in 1..Len(configs), probe \in ProbeKeys :
                      j # i =>
                          ConfigGet(configs'[j], probe, NoneValue, default_model')
                              = ConfigGet(configs[j], probe, NoneValue,
                                          default_model)]_vars
    /\ []DefaultsIntact
    /\ [][Constructs /\ global_file = NoFile /\ project_file = NoFile
              /\ environ = NoEnvironment
            => \A key \in ResolvedKeys :
                   ConfigGet(Last(configs'), key, NoneValue, default_model')
                       = BuiltIn(key)]_vars

\* ---------------------------------------------------------------------
\* Properties of the session's repository context and prompt

\* C35: every call of the model within a session is given the same
\* repository context, the one made of the snapshot that generate takes
\* before its loop; the snapshot is not taken again while the session runs,
\* whatever the passes write.
C35_OneSnapshot ==
    /\ [](\A i, j \in 1..Len(api_calls) :
              api_calls[i].repo_context = api_calls[j].repo_context)
    /\ [](\A i \in 1..Len(api_calls) :
              api_calls[i].repo_context =
                  IF repo_files = <<>> THEN <<>> ELSE RepoContext(repo_files))
    /\ [][pc # "Idle" => repo_files' = repo_files]_vars

\* a second call of the model made after the first pass wrote a file that
\* the snapshot does not hold
C35_Witness ==
    /\ Len(api_calls) >= 2
    /\ repo_files # <<>>
    /\ \E l \in Locs : IsFile(disk[l]) /\ ~DictHas(repo_files, l)
    /\ api_calls[2].repo_context = api_calls[1].repo_context

\* ---------------------------------------------------------------------
\* Further properties of _extract_files

\* a file with a path is open and lines have been accumulated for it
OpenWithContent == Truthy(current_file) /\ current_content # <<>>

\* C36: a step that reads a fence-open marker while a file is open with
\* accumulated lines stores those lines, joined, under the path of the
\* open file, leaves the other entries alone, and goes on with the path of
\* the marker and no accumulated line.
C36_MarkerFlushes ==
    [][ScanLine /\ IsMarkerLine(NextLine) /\ OpenWithContent =>
           /\ DictHas(extracted_files', current_file)
           /\ DictGet(extracted_files', current_file)
                  = JoinLines(current_content)
           /\ \A i \in 1..Len(extracted_files) :
                  extracted_files[i].k # current_file =>
                      /\ DictHas(extracted_files', extracted_files[i].k)
                      /\ DictGet(extracted_files', extracted_files[i].k)
                             = extracted_files[i].v
           /\ Len(extracted_files') <= Len(extracted_files) + 1
           /\ current_content' = <<>>
           /\ \A q \in ScanPaths \cup {<<>>} :
                  NamesPath(NextLine, q) => current_file' = q]_vars

\* a marker has just been read after the marker and one line of a file
\* that was never closed: the line is stored under that file's path and
\* nothing is accumulated for the new file
C36_Witness ==
    /\ pc = "Scanning"
    /\ line_no >= 3
    /\ IsMarkerLine(lines[line_no])
    /\ IsContentLine(lines[line_no - 1])
    /\ current_content = <<>>
    /\ \E q \in ScanPaths :
           /\ NamesPath(lines[line_no - 2], q)
           /\ DictHas(extracted_files, q)
           /\ DictGet(extracted_files, q) = lines[line_no - 1]

\* ---------------------------------------------------------------------
\* The file limit of _update_prompt_with_error

\* what the step appends to the prompt
Appended == SubSeq(prompt', Len(prompt) + 1, Len(prompt'))

\* the file segments of a text
FileSeparators(text) ==
    Cardinality({i \in 1..Len(text) : text[i] = "<|file_sep|>"})

\* the text has the segment of the file e, path and whole content
HasSegment(text, e) ==
    Contains(text, <<"<|file_sep|>">> \o e.k \o <<"\n">> \o e.v \o <<"\n">>)

\* C37: a refine step that takes a snapshot of more than MAX_REPO_FILES
\* files appends exactly MAX_REPO_FILES file segments, each of a file of
\* the snapshot, and no file left out is shorter than a file put in.
C37_SmallestKept ==
    [][Refine /\ Truthy(error) /\ SnapshotCalledFor
           /\ Len(GetRepositoryFiles(disk)) > MAX_REPO_FILES =>
           LET fresh == GetRepositoryFiles(disk)
               kept == {i \in 1..Len(fresh) : HasSegment(Appended, fresh[i])}
           IN  /\ FileSeparators(Appended) = MAX_REPO_FILES
               /\ Cardinality(kept) = MAX_REPO_FILES
               /\ \A i \in kept, j \in (1..Len(fresh)) \ kept :
                      Len(fresh[j].v) >= Len(fresh[i].v)]_vars

\* a refine step has appended MAX_REPO_FILES file segments for a
\* directory whose snapshot has more files, of three different lengths,
\* and the longest file is not among them
C37_Witness ==
    /\ refine_runs = 1
    /\ pc = "LoopHead"
    /\ Len(GetRepositoryFiles(disk)) > MAX_REPO_FILES
    /\ disk[CrowdP[2]] = <<"x", "y", "z">>
    /\ FileSeparators(prompt) = MAX_REPO_FILES
    /\ ~HasSegment(prompt, [k |-> CrowdP[2], v |-> disk[CrowdP[2]]])
    /\ HasSegment(prompt, [k |-> CrowdP[1], v |-> disk[CrowdP[1]]])

\* ---------------------------------------------------------------------
\* What an entry of the result of _extract_files is made of

\* the lines between the marker at line i and the first closing fence or
\* marker after it
BlockLines(i) ==
    SubSeq(lines, i + 1, i + ContentRun(SubSeq(lines, i + 1, Len(lines))))

\* C38, as stated: every entry of the result has a path that is not empty
\* and a content made only of lines of one block of its own: the lines
\* between a marker that names its path and the first closing fence or
\* marker after it.
C38_AsStated ==
    pc = "Extracted" =>
        \A e \in 1..Len(extracted_files) :
            /\ extracted_files[e].k # <<>>
            /\ \E i \in MarkersFor(extracted_files[e].k) :
                   Contains(BlockLines(i), SplitLines(extracted_files[e].v))

\* ---------------------------------------------------------------------
\* The prompt over the iterations of a session

\* generate_code is running
InClient == pc \in {"ClientCalled", "Attempting", "ClientReturned", "ClientRaised"}

\* the messages end with the prompt, whole, and hold it once
EndsWithPrompt(ms) ==
    /\ ms # <<>>
    /\ ms[Len(ms)] = PromptMessage
    /\ \A i \in 1..(Len(ms) - 1) : ms[i] # PromptMessage

\* C39: the prompt of each call of generate_code is a prefix of the prompt
\* of the next call, the prompt of every call after a failed test run has
\* the banner with the diagnostic of that run, and generate_code is given
\* the whole prompt and sends it whole, as the last message, in every
\* chat_completion call, whatever the budget and the retries do to the
\* contexts.
C39_PromptGrows ==
    /\ \A k \in 1..(Len(api_calls) - 1) :
           IsPrefix(api_calls[k].prompt, api_calls[k + 1].prompt)
    /\ \A j \in 1..Len(test_runs) : \A k \in (j + 1)..Len(api_calls) :
           Truthy(test_runs[j].error) =>
               Contains(api_calls[k].prompt, ErrorBanner(test_runs[j].error))
    /\ InClient =>
           /\ api_calls[Len(api_calls)].prompt = prompt
           /\ prompt_chars = Len(prompt)
    /\ \A i \in 1..Len(sent) : EndsWithPrompt(sent[i])
    /\ pc = "Attempting" => EndsWithPrompt(messages)

\* the third call of generate_code of a session, after two failed test
\* runs with diagnostics: each prompt is longer than the one before, and a
\* retry after a context length error has sent the messages a second time
C39_Witness ==
    /\ Len(api_calls) = 3
    /\ Len(test_runs) = 2
    /\ Truthy(test_runs[1].error)
    /\ Truthy(test_runs[2].error)
    /\ Len(api_calls[1].prompt) < Len(api_calls[2].prompt)
    /\ Len(api_calls[2].prompt) < Len(api_calls[3].prompt)
    /\ pc = "Attempting"
    /\ Len(sent) = 2
    /\ sent[1] # sent[2]

====
